---- MODULE Spec2Model ----
(***************************************************************************)
(* The 2D polygon editor of the room blueprint: the vertex store of App    *)
(* (updateVertex, deleteVertex, insertVertex) and the pointer, wheel,      *)
(* keyboard and toolbar handlers of Floor2D, as one state machine.         *)
(*                                                                         *)
(* Numbers.  The program computes with IEEE doubles.  The model computes   *)
(* with exact rationals <<n, d>> (d > 0, lowest terms), so every           *)
(* comparison the code makes is decided as real arithmetic decides it.     *)
(* Square roots are avoided by comparing squared distances; that is the    *)
(* same comparison, since all distances are non-negative.                  *)
(* Screen lengths are held in units of 100 px (Px), which keeps the        *)
(* integers small; world lengths are in metres.                            *)
(*                                                                         *)
(* null is NULL (-1) for an index and the empty sequence <<>> for a point  *)
(* or a snapshot held in a ref; <<v>> is a ref holding v.                  *)
(***************************************************************************)
EXTENDS Integers, Sequences, FiniteSets, TLC

\* ------------------------------------------------------------ rationals

Abs(n) == IF n < 0 THEN -n ELSE n

RECURSIVE GCD(_, _)
GCD(a, b) == IF b = 0 THEN a ELSE GCD(b, a % b)

\* n/d in lowest terms with a positive denominator (d # 0)
Frac(n, d) ==
  LET g == GCD(Abs(n), Abs(d))
      s == IF d < 0 THEN -1 ELSE 1
  IN  <<s * (n \div g), Abs(d) \div g>>

Rat(n) == <<n, 1>>
Zero == Rat(0)
One == Rat(1)

\* what a division by zero leaves: 0 / 0 is NaN, x / 0 is an infinity.  Arithmetic
\* on either gives NaN here; no state of the editor computes with an infinity.
NaN == <<0, 0>>
IsFinite(a) == a[2] # 0

RAdd(a, b) ==
  IF ~IsFinite(a) \/ ~IsFinite(b) THEN NaN
  ELSE IF a[2] = b[2]
  THEN (IF a[2] = 1 THEN <<a[1] + b[1], 1>> ELSE Frac(a[1] + b[1], a[2]))
  ELSE LET g == GCD(a[2], b[2])
       IN  Frac(a[1] * (b[2] \div g) + b[1] * (a[2] \div g), (a[2] \div g) * b[2])
RNeg(a) == <<-a[1], a[2]>>
RSub(a, b) == RAdd(a, RNeg(b))
RMul(a, b) ==
  IF ~IsFinite(a) \/ ~IsFinite(b) THEN NaN
  ELSE IF a[1] = 0 \/ b[1] = 0 THEN Zero
  ELSE IF a[2] = 1 /\ b[2] = 1 THEN <<a[1] * b[1], 1>>
  ELSE LET g1 == GCD(Abs(a[1]), b[2])
           g2 == GCD(Abs(b[1]), a[2])
       IN  <<(a[1] \div g1) * (b[1] \div g2), (a[2] \div g2) * (b[2] \div g1)>>
RInv(a) == IF a[1] < 0 THEN <<-a[2], -a[1]>> ELSE <<a[2], a[1]>>
RDiv(a, b) ==
  IF IsFinite(a) /\ b[1] = 0
  THEN (IF a[1] = 0 THEN NaN ELSE IF a[1] < 0 THEN <<-1, 0>> ELSE <<1, 0>>)
  ELSE RMul(a, RInv(b))
\* a <= b, by comparing the continued fractions of a and b: no product is formed
RECURSIVE RLe(_, _)
RLe(a, b) ==
  LET qa == a[1] \div a[2]
      qb == b[1] \div b[2]
      ra == a[1] % a[2]
      rb == b[1] % b[2]
  IN  IF qa # qb THEN qa < qb
      ELSE IF ra = 0 THEN TRUE
      ELSE IF rb = 0 THEN FALSE
      ELSE RLe(<<b[2], rb>>, <<a[2], ra>>)
RLt(a, b) == ~RLe(b, a)
RSq(a) == <<a[1] * a[1], a[2] * a[2]>>
RAbs(a) == <<Abs(a[1]), a[2]>>
\* Math.min, Math.max: NaN if an argument is NaN
RMin(a, b) == IF ~IsFinite(a) \/ ~IsFinite(b) THEN NaN ELSE IF RLe(a, b) THEN a ELSE b
RMax(a, b) == IF ~IsFinite(a) \/ ~IsFinite(b) THEN NaN ELSE IF RLe(a, b) THEN b ELSE a

\* n pixels, in units of 100 px
Px(n) == Frac(n, 100)

\* ------------------------------------------------------------ vectors

Vec(x, y) == [x |-> x, y |-> y]
VAdd(a, b) == Vec(RAdd(a.x, b.x), RAdd(a.y, b.y))
VSub(a, b) == Vec(RSub(a.x, b.x), RSub(a.y, b.y))
\* Math.hypot(x, y) squared
Hypot2(x, y) == RAdd(RSq(x), RSq(y))

NULL == -1

\* 0-based access to a JavaScript array held as a sequence
At(arr, i) == arr[i + 1]
Indices(arr) == 0 .. (Len(arr) - 1)

\* ------------------------------------------------------------ App: the vertex store

\* the polygon the session starts with
InitialVertices ==
  << Vec(Rat(-2), Frac(-3, 2)), Vec(Rat(2), Frac(-3, 2)),
     Vec(Rat(2), Frac(3, 2)),   Vec(Rat(-2), Frac(3, 2)) >>

\* a variant that clamps an index past the end to the last vertex
updateVertexClamped(prev, index, v) ==
  [k \in 1 .. Len(prev) |->
     IF k - 1 = index \/ (index >= Len(prev) /\ k = Len(prev)) THEN v ELSE prev[k]]

\* prev.map((p, i) => (i === index ? v : p))
updateVertex(prev, index, v) ==
  [k \in 1 .. Len(prev) |-> IF k - 1 = index THEN v ELSE prev[k]]

\* a variant that filters by value: every vertex equal to the one at index goes
FilterOutEqual(prev, index) ==
  IF index \in Indices(prev)
  THEN SelectSeq(prev, LAMBDA q : q # At(prev, index))
  ELSE prev

\* prev.filter((_, i) => i !== index)
FilterOut(prev, index) ==
  IF index \in Indices(prev)
  THEN [k \in 1 .. (Len(prev) - 1) |-> IF k - 1 < index THEN prev[k] ELSE prev[k + 1]]
  ELSE prev

\* a variant whose guard is off by one: it refuses only below 3 vertices
deleteVertexBelowThree(prev, index) ==
  IF Len(prev) < 3 THEN prev ELSE FilterOut(prev, index)

\* if (prev.length <= 3) return prev; return prev.filter(...)
deleteVertex(prev, index) ==
  IF Len(prev) <= 3 THEN prev ELSE FilterOut(prev, index)

\* next = prev.slice(); next.splice(index, 0, v)
\* (splice clamps a start beyond the end to the length, a negative one counts from the end)
insertVertex(prev, index, v) ==
  LET n == Len(prev)
      at == IF index > n THEN n
            ELSE IF index < 0 THEN (IF n + index < 0 THEN 0 ELSE n + index)
            ELSE index
  IN  [k \in 1 .. (n + 1) |->
         IF k - 1 < at THEN prev[k] ELSE IF k - 1 = at THEN v ELSE prev[k - 1]]

\* ------------------------------------------------------------ Floor2D: state

VARIABLES
  vertices,          \* App: useState<Vec2[]>, the polygon as of the last render
  pending,           \* the onMove calls queued by setVertices since the last render
  dragIndex,         \* index of the vertex being dragged, or NULL
  mergeCandidate,    \* mergeCandidateRef.current
  offset,            \* pan offset, screen units
  pxPerM,            \* scale, screen units per metre
  selectedEdge,
  dragEdge,
  prevPointerWorld,  \* prevPointerWorldRef.current: <<>> or <<Vec2>>
  selectedVertex,
  isPanning,
  lastPan,           \* lastPanRef.current: <<>> or <<point>>
  hoverVertex,
  hoverEdge,
  isAddMode,
  addPreview,        \* <<>> or <<[edge, p]>>
  isObjectMode,
  objectSelected,
  objectTool,        \* "translate" | "rotate"
  objectDragStart,   \* objectDragStartRef.current
  objectCenter,      \* objectCenterRef.current
  objectStartAngle,  \* objectStartAngleRef.current, held as the direction it is the angle of
  originalVerts,     \* originalVertsRef.current: <<>> or <<Vec2[]>>
  last,              \* history: the event handled last and its inputs
  steps,             \* history: number of events handled
  wheels             \* history: number of wheel events handled

storeVars == <<vertices>>
queueVars == <<pending>>
viewVars == <<offset, pxPerM>>
selVars == <<selectedVertex, selectedEdge>>
dragVars == <<dragIndex, dragEdge, mergeCandidate, prevPointerWorld>>
panVars == <<isPanning, lastPan>>
hoverVars == <<hoverVertex, hoverEdge, addPreview>>
modeVars == <<isAddMode, isObjectMode, objectTool>>
objVars == <<objectSelected, objectDragStart, objectCenter, objectStartAngle, originalVerts>>
vars == <<storeVars, queueVars, viewVars, selVars, dragVars, panVars, hoverVars, modeVars,
          objVars, last, steps, wheels>>

\* ------------------------------------------------------------ Floor2D: constants

MIN_PX_PER_M == 20
MAX_PX_PER_M == 400
POINT_R_PX == 8
\* getNearestIndex: (POINT_R_PX + 6)
VERTEX_MARGIN_PX == 6
\* getNearestEdge: const threshold = 10
EDGE_THRESHOLD_PX == 10
MERGE_SNAP_PX == 10
\* useState<number>(100)
INITIAL_PX_PER_M == 100

\* canvas.getBoundingClientRect(): the size of the canvas, in px
RectW == 800
RectH == 600

\* const cx = rect.width / 2 + offset.x; const cy = rect.height / 2 + offset.y
CenterX == RAdd(Px(RectW \div 2), offset.x)
CenterY == RAdd(Px(RectH \div 2), offset.y)

\* ------------------------------------------------------------ Floor2D: coordinate transform

\* a variant that does not flip the Y axis
worldToCanvasNoFlip(v, cx, cy) ==
  Vec(RAdd(cx, RMul(v.x, pxPerM)), RAdd(cy, RMul(v.y, pxPerM)))

\* [cx + v.x * pxPerM, cy - v.y * pxPerM]
worldToCanvas(v, cx, cy) ==
  Vec(RAdd(cx, RMul(v.x, pxPerM)), RSub(cy, RMul(v.y, pxPerM)))

\* { x: (x - cx) / pxPerM, y: (cy - y) / pxPerM }
canvasToWorld(x, y, cx, cy) ==
  Vec(RDiv(RSub(x, cx), pxPerM), RDiv(RSub(cy, y), pxPerM))

\* ------------------------------------------------------------ Floor2D: hit-testing

\* the vertices on the canvas: worldToCanvas(v, cx, cy) for each vertex v
ScreenVertices ==
  LET cx == CenterX
      cy == CenterY
  IN  [k \in 1 .. Len(vertices) |-> worldToCanvas(vertices[k], cx, cy)]

\* a variant of the loop whose threshold is the vertex radius alone
RECURSIVE NearestIndexLoopNoMargin(_, _, _, _)
NearestIndexLoopNoMargin(sv, px, py, k) ==
  IF k = 0 THEN <<NULL, RSq(Px(POINT_R_PX))>>
  ELSE LET acc == NearestIndexLoopNoMargin(sv, px, py, k - 1)
           c == sv[k]
           d2 == Hypot2(RSub(c.x, px), RSub(c.y, py))
       IN  IF RLe(d2, acc[2]) THEN <<k - 1, d2>> ELSE acc

\* a variant of the loop that compares with < : the first of the nearest wins
RECURSIVE NearestIndexLoopStrict(_, _, _, _)
NearestIndexLoopStrict(sv, px, py, k) ==
  IF k = 0 THEN <<NULL, RSq(Px(POINT_R_PX + VERTEX_MARGIN_PX))>>
  ELSE LET acc == NearestIndexLoopStrict(sv, px, py, k - 1)
           c == sv[k]
           d2 == Hypot2(RSub(c.x, px), RSub(c.y, py))
       IN  IF RLt(d2, acc[2]) THEN <<k - 1, d2>> ELSE acc

\* the loop of getNearestIndex over vertices 0 .. k-1 (sv: the vertices on the
\* canvas): <<best, bestD2>>
RECURSIVE NearestIndexLoop(_, _, _, _)
NearestIndexLoop(sv, px, py, k) ==
  IF k = 0 THEN <<NULL, RSq(Px(POINT_R_PX + VERTEX_MARGIN_PX))>>
  ELSE LET acc == NearestIndexLoop(sv, px, py, k - 1)
           c == sv[k]
           d2 == Hypot2(RSub(c.x, px), RSub(c.y, py))
       IN  IF RLe(d2, acc[2]) THEN <<k - 1, d2>> ELSE acc

getNearestIndex(px, py) == NearestIndexLoop(ScreenVertices, px, py, Len(vertices))[1]

\* pointToSegmentDistance, squared.  For the foot (bx, by) = (x1, y1) + b * (vx, vy),
\* b = c1 / c2, the squared distance (px - bx)^2 + (py - by)^2 equals
\* (vx * wy - vy * wx)^2 / c2, which is how the last branch computes it.
pointToSegmentDistance2(px, py, x1, y1, x2, y2) ==
  LET vx == RSub(x2, x1)
      vy == RSub(y2, y1)
      wx == RSub(px, x1)
      wy == RSub(py, y1)
      c1 == RAdd(RMul(vx, wx), RMul(vy, wy))
      c2 == RAdd(RMul(vx, vx), RMul(vy, vy))
      cross == RSub(RMul(vx, wy), RMul(vy, wx))
  IN  IF RLe(c1, Zero) THEN Hypot2(RSub(px, x1), RSub(py, y1))
      ELSE IF RLe(c2, c1) THEN Hypot2(RSub(px, x2), RSub(py, y2))
      ELSE RDiv(RSq(cross), c2)

\* a variant of the loop that keeps the first of the nearest edges
RECURSIVE NearestEdgeLoopFirst(_, _, _, _)
NearestEdgeLoopFirst(sv, px, py, k) ==
  IF k = 0 THEN <<NULL, RSq(Px(EDGE_THRESHOLD_PX))>>
  ELSE LET acc == NearestEdgeLoopFirst(sv, px, py, k - 1)
           i == k - 1
           j == (i + 1) % Len(vertices)
           a == At(sv, i)
           b == At(sv, j)
           d2 == pointToSegmentDistance2(px, py, a.x, a.y, b.x, b.y)
       IN  IF RLe(d2, acc[2]) /\ (acc[1] = NULL \/ d2 # acc[2]) THEN <<i, d2>> ELSE acc

\* the loop of getNearestEdge over edges 0 .. k-1: <<bestEdge, bestD squared>>
RECURSIVE NearestEdgeLoop(_, _, _, _)
NearestEdgeLoop(sv, px, py, k) ==
  IF k = 0 THEN <<NULL, RSq(Px(EDGE_THRESHOLD_PX))>>
  ELSE LET acc == NearestEdgeLoop(sv, px, py, k - 1)
           i == k - 1
           j == (i + 1) % Len(vertices)
           a == At(sv, i)
           b == At(sv, j)
           d2 == pointToSegmentDistance2(px, py, a.x, a.y, b.x, b.y)
       IN  IF RLe(d2, acc[2]) THEN <<i, d2>> ELSE acc

getNearestEdge(px, py) == NearestEdgeLoop(ScreenVertices, px, py, Len(vertices))[1]

\* the sum of pts[i].x * pts[j].y - pts[j].x * pts[i].y over i = 0 .. k-1, j = (i + 1) % n
RECURSIVE ShoelaceSum(_, _)
ShoelaceSum(pts, k) ==
  IF k = 0 THEN Zero
  ELSE LET a == pts[k]
           b == pts[(k % Len(pts)) + 1]
       IN  RAdd(ShoelaceSum(pts, k - 1), RSub(RMul(a.x, b.y), RMul(b.x, a.y)))

\* a variant that returns half the signed sum
computePolygonAreaSigned(pts) ==
  IF Len(pts) < 3 THEN Zero ELSE RMul(ShoelaceSum(pts, Len(pts)), Frac(1, 2))

\* computePolygonAreaM2: 0 below 3 points, else |sum| * 0.5
computePolygonAreaM2(pts) ==
  IF Len(pts) < 3 THEN Zero ELSE RMul(RAbs(ShoelaceSum(pts, Len(pts))), Frac(1, 2))

\* a variant without the floor of the denominator
projectPointOnSegmentNoFloor(p, a, b) ==
  LET abx == RSub(b.x, a.x)
      aby == RSub(b.y, a.y)
      apx == RSub(p.x, a.x)
      apy == RSub(p.y, a.y)
      ab2 == RAdd(RMul(abx, abx), RMul(aby, aby))
      t0 == RDiv(RAdd(RMul(apx, abx), RMul(apy, aby)), ab2)
      t == RMax(Zero, RMin(One, t0))
  IN  Vec(RAdd(a.x, RMul(abx, t)), RAdd(a.y, RMul(aby, t)))

\* projectPointOnSegment: ab2 = abx * abx + aby * aby || 1; t clamped to [0, 1]
projectPointOnSegment(p, a, b) ==
  LET abx == RSub(b.x, a.x)
      aby == RSub(b.y, a.y)
      apx == RSub(p.x, a.x)
      apy == RSub(p.y, a.y)
      s == RAdd(RMul(abx, abx), RMul(aby, aby))
      ab2 == IF s = Zero THEN One ELSE s
      t0 == RDiv(RAdd(RMul(apx, abx), RMul(apy, aby)), ab2)
      t == RMax(Zero, RMin(One, t0))
  IN  Vec(RAdd(a.x, RMul(abx, t)), RAdd(a.y, RMul(aby, t)))

\* the sum of f over pts[1 .. k]
RECURSIVE SumX(_, _)
SumX(pts, k) == IF k = 0 THEN Zero ELSE RAdd(SumX(pts, k - 1), pts[k].x)
RECURSIVE SumY(_, _)
SumY(pts, k) == IF k = 0 THEN Zero ELSE RAdd(SumY(pts, k - 1), pts[k].y)

\* getCentroid: the average of the vertices, (0, 0) for none
getCentroid(pts) ==
  IF Len(pts) = 0 THEN Vec(Zero, Zero)
  ELSE Vec(RDiv(SumX(pts, Len(pts)), Rat(Len(pts))),
           RDiv(SumY(pts, Len(pts)), Rat(Len(pts))))

\* ------------------------------------------------------------ inputs of the model

\* how many events one run of the model handles, and how many of them are wheel events
MaxEvents == 4
MaxWheel == 1

\* the pointer positions the events are drawn from, in canvas px: on vertex 0,
\* 10 px from vertex 1 (on edge 1, 10 px from edge 0), the middle of the canvas,
\* and 10 px outside the closing edge
PointerPx == { <<200, 450>>, <<600, 440>>, <<400, 300>>, <<190, 300>> }
Pointers == { Vec(Px(q[1]), Px(q[2])) : q \in PointerPx }

\* e.button: 0 primary, 1 middle, 2 secondary
Buttons == {0, 1, 2}

\* the modifier held during a pointer-move (e.shiftKey, e.ctrlKey); only the
\* drags read it, so it is enumerated while a vertex or an edge is dragged
Modifiers == IF dragIndex # NULL \/ dragEdge # NULL THEN {"none", "shift", "ctrl"} ELSE {"none"}

Keys == {"Delete", "Backspace", "a"}

\* values of Math.exp(-e.deltaY * 0.001) the wheel events are drawn from
WheelFactors == { Frac(1, 20), Rat(2) }

\* one more event is handled, and the component is rendered again after it:
\* nothing stays queued
Tick == steps' = steps + 1 /\ UNCHANGED queueVars

\* the record of an event: its kind and inputs, the length of the polygon when it
\* arrived, and the index its handler passed to onInsert or onDelete (NULL: no call).
\* pan is the history of the pan gesture in progress, <<>> when there is none
\* (a pointer-up ends it; the pointer-down that starts it records it, see PanStart).
\* snapped tells whether a pointer-move of a vertex drag has found a merge
\* candidate since the last pointer-down. sel is the position that the selected
\* vertex had when the pointer-down selected it, <<>> when no press has selected
\* a vertex or an empty press has cleared the selection.
Event(ev, btn, pt, key, idx) ==
  [ev |-> ev, btn |-> btn, pt |-> pt, key |-> key, n |-> Len(vertices), idx |-> idx,
   pan |-> IF ev \in {"init", "up"} THEN <<>> ELSE last.pan,
   snapped |-> IF ev \in {"init", "down"} THEN FALSE ELSE last.snapped,
   sel |-> IF ev = "init" THEN <<>> ELSE last.sel]

\* what is recorded of a pointer-down at p that starts a pan: the pan offset
\* before the gesture less the position of the press, and how many wheel events
\* had been handled
PanStart(p) == << [q |-> VSub(offset, p), w |-> wheels] >>

\* ------------------------------------------------------------ Floor2D: onPointerDown

\* a variant that pans on the secondary button only
DownBranchSecondaryOnly(btn, px, py) ==
  IF btn = 2 THEN "pan"
  ELSE IF isAddMode /\ getNearestEdge(px, py) # NULL THEN "insert"
  ELSE IF isObjectMode THEN "object"
  ELSE IF getNearestIndex(px, py) # NULL THEN "vertex"
  ELSE IF getNearestEdge(px, py) # NULL THEN "edge"
  ELSE "empty"

\* a variant that tests the vertex under the cursor before object mode
DownBranchVertexFirst(btn, px, py) ==
  IF btn = 2 \/ btn = 1 THEN "pan"
  ELSE IF isAddMode /\ getNearestEdge(px, py) # NULL THEN "insert"
  ELSE IF getNearestIndex(px, py) # NULL THEN "vertex"
  ELSE IF isObjectMode THEN "object"
  ELSE IF getNearestEdge(px, py) # NULL THEN "edge"
  ELSE "empty"

\* a variant whose empty press pans without clearing the selection
DownBranchEmptyPansOnly(btn, px, py) ==
  IF btn = 2 \/ btn = 1 THEN "pan"
  ELSE IF isAddMode /\ getNearestEdge(px, py) # NULL THEN "insert"
  ELSE IF isObjectMode THEN "object"
  ELSE IF getNearestIndex(px, py) # NULL THEN "vertex"
  ELSE IF getNearestEdge(px, py) # NULL THEN "edge"
  ELSE "pan"

\* which branch of onPointerDown a press takes: the order of its tests
DownBranch(btn, px, py) ==
  IF btn = 2 \/ btn = 1 THEN "pan"
  ELSE IF isAddMode /\ getNearestEdge(px, py) # NULL THEN "insert"
  ELSE IF isObjectMode THEN "object"
  ELSE IF getNearestIndex(px, py) # NULL THEN "vertex"
  ELSE IF getNearestEdge(px, py) # NULL THEN "edge"
  ELSE "empty"

\* a variant that inserts at the index of the edge's first endpoint
InsertAtEdgeStart(eIdx, px, py) ==
  LET i == eIdx
      j == (i + 1) % Len(vertices)
      pWorld == canvasToWorld(px, py, CenterX, CenterY)
      proj == projectPointOnSegment(pWorld, At(vertices, i), At(vertices, j))
  IN  <<i, proj>>

\* the vertex onPointerDown inserts for a press on edge eIdx: <<index, point>>
InsertAt(eIdx, px, py) ==
  LET i == eIdx
      j == (i + 1) % Len(vertices)
      pWorld == canvasToWorld(px, py, CenterX, CenterY)
      proj == projectPointOnSegment(pWorld, At(vertices, i), At(vertices, j))
  IN  <<j, proj>>

PointerDown(btn, p) ==
  LET px == p.x
      py == p.y
  IN
  \E br \in { DownBranch(btn, px, py) } :
  /\ Tick /\ UNCHANGED wheels
  /\ last' = [ Event("down", btn, <<p>>, "",
                     IF br = "insert" THEN InsertAt(getNearestEdge(px, py), px, py)[1] ELSE NULL)
               EXCEPT !.pan = IF br \in {"pan", "empty"} THEN PanStart(p) ELSE @,
                      !.sel = IF br = "vertex" THEN << At(vertices, getNearestIndex(px, py)) >>
                              ELSE IF br = "empty" THEN <<>> ELSE @ ]
  /\ CASE br = "pan" ->
            /\ isPanning' = TRUE
            /\ lastPan' = <<p>>
            /\ UNCHANGED <<storeVars, viewVars, selVars, dragVars, hoverVars, modeVars, objVars>>
       [] br = "insert" ->
            LET ins == InsertAt(getNearestEdge(px, py), px, py) IN
            /\ vertices' = insertVertex(vertices, ins[1], ins[2])
            /\ isAddMode' = FALSE
            /\ addPreview' = <<>>
            /\ hoverEdge' = NULL
            /\ UNCHANGED <<viewVars, selVars, dragVars, panVars, hoverVertex,
                           isObjectMode, objectTool, objVars>>
       [] br = "object" ->
            LET pw == canvasToWorld(px, py, CenterX, CenterY)
                center == getCentroid(vertices)
            IN
            /\ objectSelected' = TRUE
            /\ objectDragStart' = <<pw>>
            /\ objectCenter' = <<center>>
            /\ originalVerts' = <<vertices>>
            /\ objectStartAngle' = IF objectTool = "rotate" THEN <<VSub(pw, center)>> ELSE <<>>
            /\ UNCHANGED <<storeVars, viewVars, selVars, dragVars, panVars, hoverVars, modeVars>>
       [] br = "vertex" ->
            LET vIdx == getNearestIndex(px, py) IN
            /\ dragIndex' = vIdx
            /\ selectedVertex' = vIdx
            /\ dragEdge' = NULL
            /\ selectedEdge' = NULL
            /\ prevPointerWorld' = <<>>
            /\ UNCHANGED <<storeVars, viewVars, mergeCandidate, panVars, hoverVars, modeVars, objVars>>
       [] br = "edge" ->
            LET eIdx == getNearestEdge(px, py) IN
            /\ selectedEdge' = eIdx
            /\ dragEdge' = eIdx
            /\ prevPointerWorld' = <<canvasToWorld(px, py, CenterX, CenterY)>>
            /\ UNCHANGED <<storeVars, viewVars, selectedVertex, dragIndex, mergeCandidate,
                           panVars, hoverVars, modeVars, objVars>>
       [] OTHER ->
            /\ selectedVertex' = NULL
            /\ selectedEdge' = NULL
            /\ isPanning' = TRUE
            /\ lastPan' = <<p>>
            /\ UNCHANGED <<storeVars, viewVars, dragVars, hoverVars, modeVars, objVars>>

\* ------------------------------------------------------------ Floor2D: onPointerUp

\* a variant that leaves the merge candidate and the pan anchor in place
PointerUpKeepsCandidate ==
  /\ Tick /\ UNCHANGED wheels
  /\ last' = Event("up", NULL, <<>>, "",
                   IF dragIndex # NULL /\ mergeCandidate # NULL THEN dragIndex ELSE NULL)
  /\ vertices' = IF dragIndex # NULL /\ mergeCandidate # NULL
                 THEN deleteVertex(vertices, dragIndex)
                 ELSE vertices
  /\ dragIndex' = NULL
  /\ dragEdge' = NULL
  /\ isPanning' = FALSE
  /\ prevPointerWorld' = <<>>
  /\ objectDragStart' = <<>>
  /\ originalVerts' = <<>>
  /\ UNCHANGED <<viewVars, selVars, hoverVars, modeVars, objectSelected, objectCenter,
                 objectStartAngle, mergeCandidate, lastPan>>

PointerUp ==
  /\ Tick /\ UNCHANGED wheels
  /\ last' = Event("up", NULL, <<>>, "",
                   IF dragIndex # NULL /\ mergeCandidate # NULL THEN dragIndex ELSE NULL)
  /\ vertices' = IF dragIndex # NULL /\ mergeCandidate # NULL
                 THEN deleteVertex(vertices, dragIndex)
                 ELSE vertices
  /\ mergeCandidate' = NULL
  /\ dragIndex' = NULL
  /\ dragEdge' = NULL
  /\ isPanning' = FALSE
  /\ lastPan' = <<>>
  /\ prevPointerWorld' = <<>>
  /\ objectDragStart' = <<>>
  /\ originalVerts' = <<>>
  /\ UNCHANGED <<viewVars, selVars, hoverVars, modeVars, objectSelected, objectCenter,
                 objectStartAngle>>

\* ------------------------------------------------------------ Floor2D: onKey, toolbar

\* a variant that deletes on any key
KeyAnyKey(k) ==
  /\ Tick /\ UNCHANGED wheels
  /\ last' = Event("key", NULL, <<>>, k,
                   IF selectedVertex # NULL /\ Len(vertices) > 3 THEN selectedVertex ELSE NULL)
  /\ vertices' = IF selectedVertex # NULL /\ Len(vertices) > 3
                 THEN deleteVertex(vertices, selectedVertex)
                 ELSE vertices
  /\ UNCHANGED <<viewVars, selVars, dragVars, panVars, hoverVars, modeVars, objVars>>

\* the keydown listener
Key(k) ==
  /\ Tick /\ UNCHANGED wheels
  /\ last' = Event("key", NULL, <<>>, k,
                   IF (k = "Delete" \/ k = "Backspace") /\ selectedVertex # NULL
                      /\ Len(vertices) > 3
                   THEN selectedVertex ELSE NULL)
  /\ vertices' = IF (k = "Delete" \/ k = "Backspace") /\ selectedVertex # NULL
                    /\ Len(vertices) > 3
                 THEN deleteVertex(vertices, selectedVertex)
                 ELSE vertices
  /\ UNCHANGED <<viewVars, selVars, dragVars, panVars, hoverVars, modeVars, objVars>>

\* toggleAddMode: setIsAddMode(m => !m)
ToggleAddMode ==
  /\ Tick /\ UNCHANGED wheels
  /\ last' = Event("toggleAdd", NULL, <<>>, "", NULL)
  /\ isAddMode' = ~isAddMode
  /\ UNCHANGED <<storeVars, viewVars, selVars, dragVars, panVars, hoverVars,
                 isObjectMode, objectTool, objVars>>

\* a variant that also disarms insert mode
ToggleObjectModeDisarmsInsert ==
  /\ Tick /\ UNCHANGED wheels
  /\ last' = Event("toggleObject", NULL, <<>>, "", NULL)
  /\ isObjectMode' = ~isObjectMode
  /\ objectSelected' = FALSE
  /\ isAddMode' = FALSE
  /\ UNCHANGED <<storeVars, viewVars, selVars, dragVars, panVars, hoverVars,
                 objectTool, objectDragStart, objectCenter, objectStartAngle,
                 originalVerts>>

\* a variant that keeps the object selected
ToggleObjectModeKeepsSelected ==
  /\ Tick /\ UNCHANGED wheels
  /\ last' = Event("toggleObject", NULL, <<>>, "", NULL)
  /\ isObjectMode' = ~isObjectMode
  /\ UNCHANGED <<storeVars, viewVars, selVars, dragVars, panVars, hoverVars,
                 isAddMode, objectTool, objVars>>

\* toggleObjectMode: setIsObjectMode(m => !m); setObjectSelected(false)
ToggleObjectMode ==
  /\ Tick /\ UNCHANGED wheels
  /\ last' = Event("toggleObject", NULL, <<>>, "", NULL)
  /\ isObjectMode' = ~isObjectMode
  /\ objectSelected' = FALSE
  /\ UNCHANGED <<storeVars, viewVars, selVars, dragVars, panVars, hoverVars,
                 isAddMode, objectTool, objectDragStart, objectCenter, objectStartAngle,
                 originalVerts>>

\* the Move and Rotate buttons, shown while object mode is on
SetObjectTool(t) ==
  /\ Tick /\ UNCHANGED wheels
  /\ isObjectMode
  /\ last' = Event("tool", NULL, <<>>, t, NULL)
  /\ objectTool' = t
  /\ UNCHANGED <<storeVars, viewVars, selVars, dragVars, panVars, hoverVars,
                 isAddMode, isObjectMode, objVars>>

\* ------------------------------------------------------------ Floor2D: onPointerMove

\* originals.forEach((ov, i) => onMove(i, f(ov))): the first k calls, pts[i] = f(originals[i])
RECURSIVE MoveAll(_, _, _)
MoveAll(vs, pts, k) ==
  IF k = 0 THEN vs ELSE updateVertex(MoveAll(vs, pts, k - 1), k - 1, pts[k])

\* the integer square root
RECURSIVE SqrtIter(_, _)
SqrtIter(n, x) ==
  LET y == (x + (n \div x)) \div 2 IN IF y >= x THEN x ELSE SqrtIter(n, y)
ISqrt(n) == IF n < 2 THEN n ELSE SqrtIter(n, n)
IsSquare(r) == ISqrt(r[1]) * ISqrt(r[1]) = r[1] /\ ISqrt(r[2]) * ISqrt(r[2]) = r[2]
RSqrt(r) == <<ISqrt(r[1]), ISqrt(r[2])>>

\* the direction an angle Math.atan2(w.y, w.x) stands for; atan2(0, 0) is 0
Dir(w) == IF w.x = Zero /\ w.y = Zero THEN Vec(One, Zero) ELSE w

\* the start direction of a rotate gesture: objectStartAngleRef.current ?? 0
StartDir == IF objectStartAngle = <<>> THEN Vec(One, Zero) ELSE Dir(objectStartAngle[1])

\* |u|^2 |v|^2 for the start direction u and the current direction v
RotNorm2(pw) ==
  LET u == StartDir
      v == Dir(VSub(pw, objectCenter[1]))
  IN  RMul(Hypot2(u.x, u.y), Hypot2(v.x, v.y))

\* <<cos dA, sin dA>> for dA = currA - startA, when they are rational
RotCosSin(pw) ==
  LET u == StartDir
      v == Dir(VSub(pw, objectCenter[1]))
      nrm == RSqrt(RotNorm2(pw))
  IN  << RDiv(RAdd(RMul(u.x, v.x), RMul(u.y, v.y)), nrm),
         RDiv(RSub(RMul(u.x, v.y), RMul(u.y, v.x)), nrm) >>

\* a variant that rotates about the origin instead of the pivot
RotatedAboutOrigin(ov, center, cs) ==
  Vec(RSub(RMul(cs[1], ov.x), RMul(cs[2], ov.y)),
      RAdd(RMul(cs[2], ov.x), RMul(cs[1], ov.y)))

\* rx = cosA * (ov.x - center.x) - sinA * (ov.y - center.y) + center.x, ry likewise
Rotated(ov, center, cs) ==
  LET rx == RSub(ov.x, center.x)
      ry == RSub(ov.y, center.y)
  IN  Vec(RAdd(RSub(RMul(cs[1], rx), RMul(cs[2], ry)), center.x),
          RAdd(RAdd(RMul(cs[2], rx), RMul(cs[1], ry)), center.y))

\* the vertices after an object-transform pointer-move to world point pw
ObjectTransform(pw) ==
  LET originals == originalVerts[1]
      center == objectCenter[1]
      d == VSub(pw, objectDragStart[1])
      cs == RotCosSin(pw)
      pts == IF objectTool = "translate"
             THEN [k \in 1 .. Len(originals) |-> VAdd(originals[k], d)]
             ELSE [k \in 1 .. Len(originals) |-> Rotated(originals[k], center, cs)]
  IN  MoveAll(vertices, pts, Len(originals))

\* a variant that compares with <= : the last of the nearest wins
ShiftSnapLastOfNearest(target) ==
  LET n == Len(vertices)
      prev == At(vertices, (dragIndex - 1 + n) % n)
      next == At(vertices, (dragIndex + 1) % n)
      candidates == << Vec(target.x, prev.y), Vec(prev.x, target.y),
                       Vec(target.x, next.y), Vec(next.x, target.y) >>
      D2(c) == Hypot2(RSub(c.x, target.x), RSub(c.y, target.y))
      Pick[k \in 1 .. 4] ==
        IF k = 1 THEN candidates[1]
        ELSE IF RLe(D2(candidates[k]), D2(Pick[k - 1])) THEN candidates[k] ELSE Pick[k - 1]
  IN  Pick[4]

\* Shift+drag: the candidate nearest to target, the first of the nearest
ShiftSnap(target) ==
  LET n == Len(vertices)
      prev == At(vertices, (dragIndex - 1 + n) % n)
      next == At(vertices, (dragIndex + 1) % n)
      candidates == << Vec(target.x, prev.y), Vec(prev.x, target.y),
                       Vec(target.x, next.y), Vec(next.x, target.y) >>
      D2(c) == Hypot2(RSub(c.x, target.x), RSub(c.y, target.y))
      Pick[k \in 1 .. 4] ==
        IF k = 1 THEN candidates[1]
        ELSE IF RLt(D2(candidates[k]), D2(Pick[k - 1])) THEN candidates[k] ELSE Pick[k - 1]
  IN  Pick[4]

\* a variant of the merge loop that does not skip the dragged vertex itself
RECURSIVE MergeLoopWithSelf(_, _, _)
MergeLoopWithSelf(sv, t, k) ==
  IF k = 0 THEN <<NULL, RSq(Px(MERGE_SNAP_PX))>>
  ELSE LET acc == MergeLoopWithSelf(sv, t, k - 1)
           i == k - 1
           v == At(sv, i)
           d2 == Hypot2(RSub(v.x, t.x), RSub(v.y, t.y))
       IN  IF RLe(d2, acc[2]) THEN <<i, d2>> ELSE acc

\* the merge loop over vertices 0 .. k-1 (sv: the vertices on the canvas, t: the
\* target on the canvas): <<candidate, bestD squared>>
RECURSIVE MergeLoop(_, _, _)
MergeLoop(sv, t, k) ==
  IF k = 0 THEN <<NULL, RSq(Px(MERGE_SNAP_PX))>>
  ELSE LET acc == MergeLoop(sv, t, k - 1)
           i == k - 1
           v == At(sv, i)
           d2 == Hypot2(RSub(v.x, t.x), RSub(v.y, t.y))
       IN  IF i = dragIndex THEN acc
           ELSE IF RLe(d2, acc[2]) THEN <<i, d2>> ELSE acc

\* a variant that keeps the candidate of an earlier move when it finds none
MergeCandidateSticky(target) ==
  LET found == MergeLoop(ScreenVertices, worldToCanvas(target, CenterX, CenterY),
                         Len(vertices))[1]
  IN  IF found = NULL THEN mergeCandidate ELSE found

\* the vertex a drag to target would merge with, or NULL
MergeCandidate(target) ==
  MergeLoop(ScreenVertices, worldToCanvas(target, CenterX, CenterY), Len(vertices))[1]

\* a variant that applies the raw pointer delta
EdgeDeltaRaw(i, j, dx, dy, ctrl) ==
  IF ctrl
  THEN IF RLt(RAbs(dy), RAbs(dx)) THEN Vec(dx, Zero) ELSE Vec(Zero, dy)
  ELSE Vec(dx, dy)

\* a variant without the floor of the length
EdgeDeltaNoFloor(i, j, dx, dy, ctrl) ==
  IF ctrl
  THEN IF RLt(RAbs(dy), RAbs(dx)) THEN Vec(dx, Zero) ELSE Vec(Zero, dy)
  ELSE LET ex == RSub(At(vertices, j).x, At(vertices, i).x)
           ey == RSub(At(vertices, j).y, At(vertices, i).y)
           len2 == Hypot2(ex, ey)
           projLen == RAdd(RMul(dx, RNeg(ey)), RMul(dy, ex))
       IN  Vec(RDiv(RMul(RNeg(ey), projLen), len2), RDiv(RMul(ex, projLen), len2))

\* a variant whose Ctrl tie keeps the horizontal component
EdgeDeltaTieKeepsX(i, j, dx, dy, ctrl) ==
  IF ctrl
  THEN IF RLe(RAbs(dy), RAbs(dx)) THEN Vec(dx, Zero) ELSE Vec(Zero, dy)
  ELSE LET ex == RSub(At(vertices, j).x, At(vertices, i).x)
           ey == RSub(At(vertices, j).y, At(vertices, i).y)
           h2 == Hypot2(ex, ey)
           len2 == IF h2 = Zero THEN One ELSE h2
           projLen == RAdd(RMul(dx, RNeg(ey)), RMul(dy, ex))
       IN  Vec(RDiv(RMul(RNeg(ey), projLen), len2), RDiv(RMul(ex, projLen), len2))

\* the delta an edge drag applies to both endpoints of edge i -> j, from the raw (dx, dy).
\* Without Ctrl it is n * (d . n) for the unit normal n = (-ey, ex) / len, len = hypot || 1;
\* the two divisions by len are one division by len squared.
EdgeDelta(i, j, dx, dy, ctrl) ==
  IF ctrl
  THEN IF RLt(RAbs(dy), RAbs(dx)) THEN Vec(dx, Zero) ELSE Vec(Zero, dy)
  ELSE LET ex == RSub(At(vertices, j).x, At(vertices, i).x)
           ey == RSub(At(vertices, j).y, At(vertices, i).y)
           h2 == Hypot2(ex, ey)
           len2 == IF h2 = Zero THEN One ELSE h2
           projLen == RAdd(RMul(dx, RNeg(ey)), RMul(dy, ex))
       IN  Vec(RDiv(RMul(RNeg(ey), projLen), len2), RDiv(RMul(ex, projLen), len2))

\* a variant that flips the vertical difference, as the world transform does
PanDeltaFlipsY(p) == Vec(RSub(p.x, lastPan[1].x), RSub(lastPan[1].y, p.y))

\* dx = px - last.x, dy = py - last.y
PanDelta(p) == Vec(RSub(p.x, lastPan[1].x), RSub(p.y, lastPan[1].y))

\* a variant that looks for an edge also when a vertex is hit
HoverEdgeAlways(hv, px, py) == getNearestEdge(px, py)

\* const he = hv !== null ? null : getNearestEdge(px, py)
HoverEdge(hv, px, py) == IF hv # NULL THEN NULL ELSE getNearestEdge(px, py)

\* a variant that moves the first endpoint only
EdgeDraggedFirstOnly(i, j, d) == updateVertex(vertices, i, VAdd(At(vertices, i), d))

\* onMove(i, vertices[i] + d); onMove(j, vertices[j] + d)
EdgeDragged(i, j, d) ==
  updateVertex(updateVertex(vertices, i, VAdd(At(vertices, i), d)),
               j, VAdd(At(vertices, j), d))

\* a variant without the visual snap onto the candidate
VertexDraggedNoSnap(target, candidate) == updateVertex(vertices, dragIndex, target)

\* onMove(dragIndex, target), and with a candidate onMove(dragIndex, vertices[candidate])
VertexDragged(target, candidate) ==
  LET moved == updateVertex(vertices, dragIndex, target)
  IN  IF candidate # NULL
      THEN updateVertex(moved, dragIndex, At(vertices, candidate))
      ELSE moved

PointerMove(p, mod) ==
  LET px == p.x
      py == p.y
      pw == canvasToWorld(px, py, CenterX, CenterY)
      n == Len(vertices)
      Hover ==
        \E hv \in { getNearestIndex(px, py) } :
        \E he \in { HoverEdge(hv, px, py) } :
        /\ hoverVertex' = hv
        /\ hoverEdge' = he
        /\ addPreview' =
             IF isAddMode /\ he # NULL
             THEN << [edge |-> he,
                      p |-> projectPointOnSegment(pw, At(vertices, he),
                                                  At(vertices, (he + 1) % n))] >>
             ELSE IF isAddMode THEN <<>> ELSE addPreview
  IN
  /\ Tick /\ UNCHANGED wheels
  /\ IF isPanning THEN
       /\ last' = Event("move", NULL, <<p>>, "", NULL)
       /\ IF lastPan # <<>>
          THEN /\ offset' = VAdd(offset, PanDelta(p))
               /\ lastPan' = <<p>>
          ELSE UNCHANGED <<offset, lastPan>>
       /\ UNCHANGED <<storeVars, pxPerM, selVars, dragVars, isPanning, hoverVars, modeVars, objVars>>
     ELSE IF isObjectMode /\ objectSelected /\ objectDragStart # <<>> THEN
       \* a rotate is enumerated for the positions whose angle has a rational sine and cosine
       /\ objectTool = "rotate" => IsSquare(RotNorm2(pw))
       /\ last' = Event("move", NULL, <<p>>, "", NULL)
       /\ vertices' = ObjectTransform(pw)
       /\ UNCHANGED <<viewVars, selVars, dragVars, panVars, hoverVars, modeVars, objVars>>
     ELSE IF dragEdge # NULL THEN
       /\ last' = Event("move", NULL, <<p>>, mod, NULL)
       /\ Hover
       /\ IF prevPointerWorld = <<>>
          THEN /\ prevPointerWorld' = <<pw>>
               /\ UNCHANGED vertices
          ELSE IF dragEdge >= n
          \* vertices[i] is undefined: reading its x throws, and the handler ends here
          THEN UNCHANGED <<vertices, prevPointerWorld>>
          ELSE LET i == dragEdge
                   j == (i + 1) % n
                   prev == prevPointerWorld[1]
                   d == EdgeDelta(i, j, RSub(pw.x, prev.x), RSub(pw.y, prev.y), mod = "ctrl")
               IN  /\ vertices' = EdgeDragged(i, j, d)
                   /\ prevPointerWorld' = <<pw>>
       /\ UNCHANGED <<viewVars, selVars, dragIndex, dragEdge, mergeCandidate, panVars,
                      modeVars, objVars>>
     ELSE IF dragIndex = NULL THEN
       /\ last' = Event("move", NULL, <<p>>, "", NULL)
       /\ Hover
       /\ UNCHANGED <<storeVars, viewVars, selVars, dragVars, panVars, modeVars, objVars>>
     ELSE
       \E target \in { IF mod = "shift" /\ n >= 2 THEN ShiftSnap(pw) ELSE pw } :
       \E candidate \in { MergeCandidate(target) } :
       /\ last' = [ Event("move", NULL, <<p>>, mod, NULL)
                    EXCEPT !.snapped = @ \/ candidate # NULL ]
       /\ Hover
       /\ mergeCandidate' = candidate
       /\ vertices' = VertexDragged(target, candidate)
       /\ UNCHANGED <<viewVars, selVars, dragIndex, dragEdge, prevPointerWorld, panVars,
                      modeVars, objVars>>

\* ------------------------------------------------------------ moves handled before a render

\* how many pointer-moves are handled between two renders
MaxUnrendered == 2

\* the edge-drag branch of onPointerMove when the component is not rendered
\* again after it: the handler reads the vertices of the last render, and its
\* two onMove calls are queued (setVertices(prev => ...)) behind those of the
\* moves handled since that render; prevPointerWorldRef is a ref and is written
\* at once
EdgeDragMoveUnrendered(p, mod) ==
  LET px == p.x
      py == p.y
      pw == canvasToWorld(px, py, CenterX, CenterY)
      hv == getNearestIndex(px, py)
      he == HoverEdge(hv, px, py)
      n == Len(vertices)
      i == dragEdge
      j == (i + 1) % n
      prev == prevPointerWorld[1]
      d == EdgeDelta(i, j, RSub(pw.x, prev.x), RSub(pw.y, prev.y), mod = "ctrl")
  IN
  /\ ~isPanning
  /\ ~(isObjectMode /\ objectSelected /\ objectDragStart # <<>>)
  /\ dragEdge # NULL /\ dragEdge < n
  /\ prevPointerWorld # <<>>
  /\ Len(pending) < 2 * MaxUnrendered
  /\ steps' = steps + 1 /\ UNCHANGED wheels
  /\ last' = Event("move", NULL, <<p>>, mod, NULL)
  /\ hoverVertex' = hv
  /\ hoverEdge' = he
  /\ addPreview' =
       IF isAddMode /\ he # NULL
       THEN << [edge |-> he,
                p |-> projectPointOnSegment(pw, At(vertices, he), At(vertices, (he + 1) % n))] >>
       ELSE IF isAddMode THEN <<>> ELSE addPreview
  /\ pending' = pending \o << <<i, VAdd(At(vertices, i), d)>>, <<j, VAdd(At(vertices, j), d)>> >>
  /\ prevPointerWorld' = <<pw>>
  /\ UNCHANGED <<storeVars, viewVars, selVars, dragIndex, dragEdge, mergeCandidate, panVars,
                 modeVars, objVars>>

\* the queued updaters applied in order, the first k of them
RECURSIVE ApplyQueued(_, _, _)
ApplyQueued(q, prev, k) ==
  IF k = 0 THEN prev
  ELSE updateVertex(ApplyQueued(q, prev, k - 1), q[k][1], q[k][2])

\* the render that follows: the queue is applied to the state and the
\* handlers see the result
Render ==
  /\ pending # <<>>
  /\ vertices' = ApplyQueued(pending, vertices, Len(pending))
  /\ pending' = <<>>
  /\ last' = Event("render", NULL, <<>>, "", NULL)
  /\ UNCHANGED <<viewVars, selVars, dragVars, panVars, hoverVars, modeVars, objVars,
                 steps, wheels>>

\* ------------------------------------------------------------ Floor2D: onWheel

\* a variant that does not clamp the scale
NextScaleUnclamped(f) == RMul(pxPerM, f)

\* Math.min(MAX_PX_PER_M, Math.max(MIN_PX_PER_M, pxPerM * Math.exp(-e.deltaY * 0.001)))
NextScale(f) == RMin(Px(MAX_PX_PER_M), RMax(Px(MIN_PX_PER_M), RMul(pxPerM, f)))

\* a variant that anchors with the scale before the event
WheelAnchorsOldScale(p, f) ==
  LET cx == CenterX
      cy == CenterY
      worldBefore == canvasToWorld(p.x, p.y, cx, cy)
      nextScale == NextScale(f)
      newPx == RAdd(cx, RMul(worldBefore.x, pxPerM))
      newPy == RSub(cy, RMul(worldBefore.y, pxPerM))
  IN
  /\ Tick
  /\ wheels' = wheels + 1
  /\ last' = Event("wheel", NULL, <<p>>, "", NULL)
  /\ pxPerM' = nextScale
  /\ offset' = Vec(RAdd(offset.x, RSub(p.x, newPx)), RAdd(offset.y, RSub(p.y, newPy)))
  /\ UNCHANGED <<storeVars, selVars, dragVars, panVars, hoverVars, modeVars, objVars>>

\* a variant that also moves vertex 0 to the anchored world point
WheelMovesVertex(p, f) ==
  LET cx == CenterX
      cy == CenterY
      worldBefore == canvasToWorld(p.x, p.y, cx, cy)
      nextScale == NextScale(f)
      newPx == RAdd(cx, RMul(worldBefore.x, nextScale))
      newPy == RSub(cy, RMul(worldBefore.y, nextScale))
  IN
  /\ Tick
  /\ wheels' = wheels + 1
  /\ last' = Event("wheel", NULL, <<p>>, "", NULL)
  /\ pxPerM' = nextScale
  /\ offset' = Vec(RAdd(offset.x, RSub(p.x, newPx)), RAdd(offset.y, RSub(p.y, newPy)))
  /\ vertices' = updateVertex(vertices, 0, worldBefore)
  /\ UNCHANGED <<selVars, dragVars, panVars, hoverVars, modeVars, objVars>>

Wheel(p, f) ==
  LET cx == CenterX
      cy == CenterY
      worldBefore == canvasToWorld(p.x, p.y, cx, cy)
      nextScale == NextScale(f)
      newPx == RAdd(cx, RMul(worldBefore.x, nextScale))
      newPy == RSub(cy, RMul(worldBefore.y, nextScale))
  IN
  /\ Tick
  /\ wheels' = wheels + 1
  /\ last' = Event("wheel", NULL, <<p>>, "", NULL)
  /\ pxPerM' = nextScale
  /\ offset' = Vec(RAdd(offset.x, RSub(p.x, newPx)), RAdd(offset.y, RSub(p.y, newPy)))
  /\ UNCHANGED <<storeVars, selVars, dragVars, panVars, hoverVars, modeVars, objVars>>

\* ------------------------------------------------------------ the editor session

Init ==
  /\ vertices = InitialVertices
  /\ dragIndex = NULL
  /\ mergeCandidate = NULL
  /\ offset = Vec(Zero, Zero)
  /\ pxPerM = Px(INITIAL_PX_PER_M)
  /\ selectedEdge = NULL
  /\ dragEdge = NULL
  /\ prevPointerWorld = <<>>
  /\ selectedVertex = NULL
  /\ isPanning = FALSE
  /\ lastPan = <<>>
  /\ hoverVertex = NULL
  /\ hoverEdge = NULL
  /\ isAddMode = FALSE
  /\ addPreview = <<>>
  /\ isObjectMode = FALSE
  /\ objectSelected = FALSE
  /\ objectTool = "translate"
  /\ objectDragStart = <<>>
  /\ objectCenter = <<>>
  /\ objectStartAngle = <<>>
  /\ originalVerts = <<>>
  /\ last = Event("init", NULL, <<>>, "", NULL)
  /\ steps = 0
  /\ pending = <<>>
  /\ wheels = 0

Next ==
  \/ steps < MaxEvents /\ \E btn \in Buttons, p \in Pointers : PointerDown(btn, p)
  \/ steps < MaxEvents /\ \E p \in Pointers, mod \in Modifiers : PointerMove(p, mod)
  \/ steps < MaxEvents /\ PointerUp
  \/ steps < MaxEvents /\ wheels < MaxWheel
       /\ \E p \in Pointers, f \in WheelFactors : Wheel(p, f)
  \/ steps < MaxEvents /\ \E k \in Keys : Key(k)
  \/ steps < MaxEvents /\ ToggleAddMode
  \/ steps < MaxEvents /\ ToggleObjectMode
  \/ steps < MaxEvents /\ \E t \in {"translate", "rotate"} : SetObjectTool(t)

Spec == Init /\ [][Next]_vars

\* ------------------------------------------------------------ hit-testing sessions

\* how many events one run of a hit-testing session handles
MaxHitEvents == 3

\* pointer positions that probe the hit tests, in canvas px: on vertex 0; 10 px
\* from vertex 1 on edge 1; 10 px from edge 0 and from edge 1, more than 14 px
\* from vertex 1; outside the corner at vertex 1, nearest to that vertex on both
\* its edges; exactly 14 px from vertex 1 on edge 0; the middle of the canvas
HitPx == { <<200, 450>>, <<600, 440>>, <<590, 440>>, <<605, 455>>, <<586, 450>>, <<400, 300>> }
HitPointers == { Vec(Px(q[1]), Px(q[2])) : q \in HitPx }

\* primary-button presses, moves, releases and the insert-mode button
HitNext ==
  \/ steps < MaxHitEvents /\ \E p \in HitPointers : PointerDown(0, p)
  \/ steps < MaxHitEvents /\ \E p \in HitPointers : PointerMove(p, "none")
  \/ steps < MaxHitEvents /\ PointerUp
  \/ steps < MaxHitEvents /\ ToggleAddMode

SpecHit == Init /\ [][HitNext]_vars

\* ------------------------------------------------------------ view sessions

\* how many events one run of a view session handles
MaxViewEvents == 3

\* pointer positions of a view session, in canvas px: on vertex 0, the middle of
\* the canvas, and a point outside the polygon
ViewPx == { <<200, 450>>, <<400, 300>>, <<620, 130>> }
ViewPointers == { Vec(Px(q[1]), Px(q[2])) : q \in ViewPx }

\* values of Math.exp(-e.deltaY * 0.001): zooming out and in, by little and by much
ViewFactors == { Frac(1, 20), Frac(1, 2), Rat(2), Rat(5) }

\* wheel events, primary and secondary presses, moves and releases
ViewNext ==
  \/ steps < MaxViewEvents /\ \E p \in ViewPointers, f \in ViewFactors : Wheel(p, f)
  \/ steps < MaxViewEvents /\ \E btn \in {0, 2}, p \in ViewPointers : PointerDown(btn, p)
  \/ steps < MaxViewEvents /\ \E p \in ViewPointers : PointerMove(p, "none")
  \/ steps < MaxViewEvents /\ PointerUp

SpecView == Init /\ [][ViewNext]_vars

\* ------------------------------------------------------------ edge-drag sessions

\* how many events one run of an edge-drag session handles
MaxEdgeEvents == 4

\* pointer positions of an edge-drag session, in canvas px: on vertex 0; the
\* middle of the canvas; the middle of edge 0 once vertex 0 is at the middle of
\* the canvas; a point off that edge; 10 px outside the closing edge
EdgePx == { <<200, 450>>, <<400, 300>>, <<500, 375>>, <<520, 400>>, <<190, 300>> }
EdgePointers == { Vec(Px(q[1]), Px(q[2])) : q \in EdgePx }

\* primary-button presses, moves with and without Ctrl, and releases
EdgeNext ==
  \/ steps < MaxEdgeEvents /\ \E p \in EdgePointers : PointerDown(0, p)
  \/ steps < MaxEdgeEvents /\ \E p \in EdgePointers, mod \in {"none", "ctrl"} : PointerMove(p, mod)
  \/ steps < MaxEdgeEvents /\ PointerUp

SpecEdge == Init /\ [][EdgeNext]_vars

\* ------------------------------------------------------------ object-transform sessions

\* how many events one run of an object-transform session handles
MaxObjectEvents == 4

\* the square of side 3 that pushing the right edge of the initial polygon 1 m
\* to the left gives
Square3 ==
  << Vec(Rat(-2), Frac(-3, 2)), Vec(One, Frac(-3, 2)),
     Vec(One, Frac(3, 2)),      Vec(Rat(-2), Frac(3, 2)) >>

\* the polygons an object-transform session starts with
ObjectPolygons == { InitialVertices, Square3 }

\* pointer positions of an object-transform session, in canvas px: on vertex 0;
\* 1 m right of the centroid of the square; 1 m above the centroid of the square
ObjectPx == { <<200, 450>>, <<450, 300>>, <<350, 200>> }
ObjectPointers == { Vec(Px(q[1]), Px(q[2])) : q \in ObjectPx }

\* the editor with object mode switched on, one of the polygons, and vertex 0
\* selected or nothing selected
InitObject ==
  /\ vertices \in ObjectPolygons
  /\ dragIndex = NULL
  /\ mergeCandidate = NULL
  /\ offset = Vec(Zero, Zero)
  /\ pxPerM = Px(INITIAL_PX_PER_M)
  /\ selectedEdge = NULL
  /\ dragEdge = NULL
  /\ prevPointerWorld = <<>>
  /\ selectedVertex \in {NULL, 0}
  /\ isPanning = FALSE
  /\ lastPan = <<>>
  /\ hoverVertex = NULL
  /\ hoverEdge = NULL
  /\ isAddMode = FALSE
  /\ addPreview = <<>>
  /\ isObjectMode = TRUE
  /\ objectSelected = FALSE
  /\ objectTool = "translate"
  /\ objectDragStart = <<>>
  /\ objectCenter = <<>>
  /\ objectStartAngle = <<>>
  /\ originalVerts = <<>>
  /\ last = Event("init", NULL, <<>>, "", NULL)
  /\ steps = 0
  /\ pending = <<>>
  /\ wheels = 0

\* primary-button presses, moves, releases, the tool buttons, the insert-mode
\* button and the Delete key
ObjectNext ==
  \/ steps < MaxObjectEvents /\ \E p \in ObjectPointers : PointerDown(0, p)
  \/ steps < MaxObjectEvents /\ \E p \in ObjectPointers : PointerMove(p, "none")
  \/ steps < MaxObjectEvents /\ PointerUp
  \/ steps < MaxObjectEvents /\ \E t \in {"translate", "rotate"} : SetObjectTool(t)
  \/ steps < MaxObjectEvents /\ ToggleAddMode
  \/ steps < MaxObjectEvents /\ Key("Delete")

SpecObject == InitObject /\ [][ObjectNext]_vars

\* ------------------------------------------------------------ keyboard sessions

\* how many events one run of a keyboard session handles
MaxKeyEvents == 5

\* pointer positions of a keyboard session, in canvas px: on vertex 0, the
\* middle of edge 0, on the last vertex of the initial polygon
KeyPx == { <<200, 450>>, <<400, 450>>, <<200, 150>> }
KeyPointers == { Vec(Px(q[1]), Px(q[2])) : q \in KeyPx }

\* primary-button presses, releases, the insert-mode button and key presses
KeyNext ==
  \/ steps < MaxKeyEvents /\ \E p \in KeyPointers : PointerDown(0, p)
  \/ steps < MaxKeyEvents /\ PointerUp
  \/ steps < MaxKeyEvents /\ ToggleAddMode
  \/ steps < MaxKeyEvents /\ \E k \in Keys : Key(k)

SpecKey == Init /\ [][KeyNext]_vars

\* ------------------------------------------------------------ vertex-drag sessions

\* how many events one run of a vertex-drag session handles
MaxSnapEvents == 4

\* pointer positions of a vertex-drag session, in canvas px: on vertex 0; the
\* middle of the canvas; 0.5 m right of and 0.5 m above vertex 0; a point in the
\* right half of the initial polygon; 5 px left of and 5 px above vertex 1
SnapPx == { <<200, 450>>, <<400, 300>>, <<250, 400>>, <<550, 280>>, <<595, 445>> }
SnapPointers == { Vec(Px(q[1]), Px(q[2])) : q \in SnapPx }

\* primary-button presses, moves with and without Shift, and releases
SnapNext ==
  \/ steps < MaxSnapEvents /\ \E p \in SnapPointers : PointerDown(0, p)
  \/ steps < MaxSnapEvents /\ \E p \in SnapPointers, mod \in {"none", "shift"} : PointerMove(p, mod)
  \/ steps < MaxSnapEvents /\ PointerUp

SpecSnap == Init /\ [][SnapNext]_vars

\* ------------------------------------------------------------ sessions with a zero-length edge

\* how many events one run of such a session handles
MaxDegEvents == 4

\* pointer positions, in canvas px: on vertex 0; on vertex 3; 5 px left of and
\* 5 px above vertex 3, outside the corner; on the top edge
DegPx == { <<200, 450>>, <<200, 150>>, <<195, 145>>, <<500, 150>> }
DegPointers == { Vec(Px(q[1]), Px(q[2])) : q \in DegPx }

\* a triangle whose closing edge has length zero.  The editor gets there from
\* the initial polygon: vertex 0 is merged into vertex 1, which leaves
\* [v1, v2, v3]; then its vertex 0 is dragged onto its vertex 2 and released (a
\* polygon of 3 vertices is not merged, the two stay on one point).
DegTriangle ==
  << Vec(Rat(-2), Frac(3, 2)), Vec(Rat(2), Frac(3, 2)), Vec(Rat(-2), Frac(3, 2)) >>

\* the editor as constructed, or holding DegTriangle with its zero-length edge 2
\* as the dragged edge.  The editor gets to the latter from DegTriangle: a vertex
\* is inserted on edge 0 (index 1) and clicked, edge 2 of the 4 vertices is
\* pressed at canvas (500, 150), and Delete removes vertex 1 while the button is
\* held: dragEdge is still 2, and edge 2 is now the zero-length closing edge.
InitDegenerate ==
  /\ \/ /\ vertices = InitialVertices
        /\ selectedEdge = NULL
        /\ dragEdge = NULL
        /\ prevPointerWorld = <<>>
        /\ selectedVertex = NULL
     \/ /\ vertices = DegTriangle
        /\ selectedEdge = 2
        /\ dragEdge = 2
        /\ prevPointerWorld = << Vec(One, Frac(3, 2)) >>
        /\ selectedVertex = 1
  /\ dragIndex = NULL
  /\ mergeCandidate = NULL
  /\ offset = Vec(Zero, Zero)
  /\ pxPerM = Px(INITIAL_PX_PER_M)
  /\ isPanning = FALSE
  /\ lastPan = <<>>
  /\ hoverVertex = NULL
  /\ hoverEdge = NULL
  /\ isAddMode = FALSE
  /\ addPreview = <<>>
  /\ isObjectMode = FALSE
  /\ objectSelected = FALSE
  /\ objectTool = "translate"
  /\ objectDragStart = <<>>
  /\ objectCenter = <<>>
  /\ objectStartAngle = <<>>
  /\ originalVerts = <<>>
  /\ last = Event("init", NULL, <<>>, "", NULL)
  /\ steps = 0
  /\ pending = <<>>
  /\ wheels = 0

\* primary-button presses, moves with and without Ctrl, releases and the
\* insert-mode button
DegNext ==
  \/ steps < MaxDegEvents /\ \E p \in DegPointers : PointerDown(0, p)
  \/ steps < MaxDegEvents /\ \E p \in DegPointers, mod \in {"none", "ctrl"} : PointerMove(p, mod)
  \/ steps < MaxDegEvents /\ PointerUp
  \/ steps < MaxDegEvents /\ ToggleAddMode

SpecDegenerate == InitDegenerate /\ [][DegNext]_vars

\* ------------------------------------------------------------ axis-constrained edge drags

\* how many events one run of an axis-constrained session handles
MaxAxisEvents == 3

\* pointer positions of an axis-constrained session, in canvas px: 10 px outside
\* the closing edge; the middle of the canvas; 150 px right of and 150 px below
\* the first; the middle of edge 0; vertex 3
AxisPx == { <<190, 300>>, <<400, 300>>, <<340, 450>>, <<400, 450>>, <<200, 150>> }
AxisPointers == { Vec(Px(q[1]), Px(q[2])) : q \in AxisPx }

\* primary-button presses, moves with and without Ctrl, and releases
AxisNext ==
  \/ steps < MaxAxisEvents /\ \E p \in AxisPointers : PointerDown(0, p)
  \/ steps < MaxAxisEvents /\ \E p \in AxisPointers, mod \in {"none", "ctrl"} : PointerMove(p, mod)
  \/ steps < MaxAxisEvents /\ PointerUp

SpecAxis == Init /\ [][AxisNext]_vars

\* ------------------------------------------------------------ vertex drags and merges

\* how many events one run of a vertex-drag session handles
MaxMergeEvents == 5

\* pointer positions of a vertex-drag session, in canvas px: on vertex 0; 10 px
\* from vertex 1; the middle of the canvas; the middle of edge 1; 10 px from
\* vertex 3
MergePx == { <<200, 450>>, <<600, 440>>, <<400, 300>>, <<600, 300>>, <<210, 150>> }
MergePointers == { Vec(Px(q[1]), Px(q[2])) : q \in MergePx }

\* primary-button presses, moves without a modifier, releases and the Delete key
MergeNext ==
  \/ steps < MaxMergeEvents /\ \E p \in MergePointers : PointerDown(0, p)
  \/ steps < MaxMergeEvents /\ \E p \in MergePointers : PointerMove(p, "none")
  \/ steps < MaxMergeEvents /\ PointerUp
  \/ steps < MaxMergeEvents /\ Key("Delete")

SpecMerge == Init /\ [][MergeNext]_vars

\* ------------------------------------------------------------ edge drags with late renders

\* how many events one run of such a session handles
MaxLateEvents == 4

\* pointer positions, in canvas px: 10 px outside the closing edge; the middle
\* of the canvas; the middle of edge 0; vertex 0
LatePx == { <<190, 300>>, <<400, 300>>, <<400, 450>>, <<200, 450>> }
LatePointers == { Vec(Px(q[1]), Px(q[2])) : q \in LatePx }

\* primary-button presses and releases, each rendered before the next event,
\* and edge-drag moves with and without Ctrl whose render comes later
LateNext ==
  \/ steps < MaxLateEvents /\ pending = <<>> /\ \E p \in LatePointers : PointerDown(0, p)
  \/ steps < MaxLateEvents
       /\ \E p \in LatePointers, mod \in {"none", "ctrl"} : EdgeDragMoveUnrendered(p, mod)
  \/ Render
  \/ steps < MaxLateEvents /\ pending = <<>> /\ PointerUp

SpecLate == Init /\ [][LateNext]_vars

\* ------------------------------------------------------------ the store on its own

\* how many calls one run of the store on its own makes
MaxStoreOps == 3
StoreTick == steps < MaxStoreOps /\ steps' = steps + 1 /\ UNCHANGED queueVars

\* App's callbacks called with any index, also one out of range, and any of
\* these points
StorePoints == { Vec(Zero, Zero), Vec(One, Frac(1, 2)) }
StoreIndices == -1 .. Len(vertices)

editorVars == <<viewVars, selVars, dragVars, panVars, hoverVars, modeVars, objVars>>

\* onMove(index, v)
StoreMove(index, v) ==
  /\ StoreTick /\ UNCHANGED wheels
  /\ last' = Event("onMove", NULL, <<v>>, "", index)
  /\ vertices' = updateVertex(vertices, index, v)
  /\ UNCHANGED editorVars

\* onDelete(index)
StoreDelete(index) ==
  /\ StoreTick /\ UNCHANGED wheels
  /\ last' = Event("onDelete", NULL, <<>>, "", index)
  /\ vertices' = deleteVertex(vertices, index)
  /\ UNCHANGED editorVars

\* onInsert(index, v)
StoreInsert(index, v) ==
  /\ StoreTick /\ UNCHANGED wheels
  /\ last' = Event("onInsert", NULL, <<v>>, "", index)
  /\ vertices' = insertVertex(vertices, index, v)
  /\ UNCHANGED editorVars

StoreNext ==
  \/ \E index \in StoreIndices, v \in StorePoints : StoreMove(index, v)
  \/ \E index \in StoreIndices : StoreDelete(index)
  \/ \E index \in StoreIndices, v \in StorePoints : StoreInsert(index, v)

SpecStore == Init /\ [][StoreNext]_vars

\* ------------------------------------------------------------ claims

\* seq without its element at 0-based position k
Without(seq, k) == SubSeq(seq, 1, k) \o SubSeq(seq, k + 2, Len(seq))

\* no gesture is in progress
ObjectDragActive == isObjectMode /\ objectSelected /\ objectDragStart # <<>>
Idle == ~isPanning /\ dragIndex = NULL /\ dragEdge = NULL /\ ~ObjectDragActive

\* C1: in every reachable state, after any sequence of pointer, wheel, toolbar
\* and keyboard events, the polygon has at least 3 vertices.
C1_AtLeastThreeVertices == Len(vertices) >= 3

\* a pointer-up has just called onDelete on a polygon of 3 vertices, which still has 3
C1_Witness ==
  /\ last.ev = "up"
  /\ last.idx # NULL
  /\ last.n = 3
  /\ Len(vertices) = 3

\* C2: delete(index) on a polygon of exactly 3 vertices leaves the sequence
\* unchanged; on a polygon of more than 3 vertices with an in-range index it
\* removes exactly the vertex at that index and keeps the others in order.
C2_DeleteContract ==
  [][ last'.ev = "onDelete" =>
        /\ Len(vertices) = 3 => vertices' = vertices
        /\ (Len(vertices) > 3 /\ last'.idx \in Indices(vertices)) =>
              /\ Len(vertices') = Len(vertices) - 1
              /\ \A k \in Indices(vertices') :
                   At(vertices', k) = At(vertices, IF k < last'.idx THEN k ELSE k + 1)
    ]_vars

\* delete(0) has removed vertex 0 of the initial polygon, and a second delete has
\* just been refused by the polygon of 3 vertices
C2_Witness ==
  /\ last.ev = "onDelete"
  /\ last.n = 3
  /\ vertices = Without(InitialVertices, 0)

\* C3: move(index, v) with an in-range index replaces only the vertex at that
\* index; with an out-of-range index it leaves the whole sequence unchanged.
C3_MoveContract ==
  [][ last'.ev = "onMove" =>
        /\ Len(vertices') = Len(vertices)
        /\ \A k \in Indices(vertices) :
             At(vertices', k) = IF k = last'.idx THEN last'.pt[1] ELSE At(vertices, k)
        /\ last'.idx \notin Indices(vertices) => vertices' = vertices
    ]_vars

\* move has just replaced the last vertex, and vertex 0 is still its initial self
C3_Witness ==
  /\ last.ev = "onMove"
  /\ last.idx = Len(vertices) - 1
  /\ At(vertices, last.idx) = last.pt[1]
  /\ At(vertices, 0) = At(InitialVertices, 0)

\* move has just been called with the index one past the end
C3_WitnessOutOfRange ==
  /\ last.ev = "onMove"
  /\ last.idx = Len(vertices)

\* seq rotated left by s places
Rot(seq, s) == [k \in 1 .. Len(seq) |-> seq[((k - 1 + s) % Len(seq)) + 1]]

\* C4: for every edge i of an n-vertex polygon, the closing edge included, an
\* insert-mode click on that edge yields a polygon of length n+1 in which the
\* new vertex is cyclically adjacent to both endpoints of edge i, and the cyclic
\* order of the original vertices is unchanged.
C4_InsertBetweenEndpoints ==
  [][ ( /\ last'.ev = "down"
        /\ last'.btn = 0
        /\ isAddMode
        /\ getNearestEdge(last'.pt[1].x, last'.pt[1].y) # NULL ) =>
      LET i == getNearestEdge(last'.pt[1].x, last'.pt[1].y)
          n == Len(vertices)
      IN  /\ Len(vertices') = n + 1
          /\ \E k \in 0 .. n, r \in 0 .. (n - 1) :
               \* without the new vertex k, the polygon is the old one, rotated by r
               /\ Without(vertices', k) = Rot(vertices, r)
               \* the vertex before k is the old vertex i, the one after it the old i+1
               /\ (((k + n - 1) % n) + r) % n = i
               /\ ((k % n) + r) % n = (i + 1) % n
    ]_vars

\* a click has just inserted a vertex on the closing edge (index 0 was passed to onInsert)
C4_Witness ==
  /\ last.ev = "down"
  /\ last.idx = 0
  /\ Len(vertices) = last.n + 1

\* C5: at most one of panning, vertex drag, edge drag and object-transform drag
\* is active in any reachable state, also when a pointer-down arrives while a
\* gesture is in progress.
C5_ModesExclusive ==
  Cardinality({ m \in {"pan", "vertex", "edge", "object"} :
                  \/ m = "pan" /\ isPanning
                  \/ m = "vertex" /\ dragIndex # NULL
                  \/ m = "edge" /\ dragEdge # NULL
                  \/ m = "object" /\ ObjectDragActive }) <= 1

\* C6: right after every pointer-up the machine is idle, and the pan anchor, the
\* previous-pointer point, the object snapshot and the merge candidate are cleared.
C6_IdleAfterPointerUp ==
  last.ev = "up" =>
    /\ Idle
    /\ lastPan = <<>>
    /\ prevPointerWorld = <<>>
    /\ originalVerts = <<>>
    /\ objectDragStart = <<>>
    /\ mergeCandidate = NULL

\* a pointer-up has just ended a vertex drag that had a merge candidate
C6_Witness ==
  /\ last.ev = "up"
  /\ last.idx # NULL
  /\ Idle

\* the move handled last was a vertex-drag move of a vertex of the polygon, so the
\* merge candidate is what that move found
AfterVertexDragMove ==
  /\ last.ev = "move"
  /\ ~isPanning /\ ~ObjectDragActive /\ dragEdge = NULL
  /\ dragIndex \in Indices(vertices)

\* C7, as claimed: for any polygon, dragging vertex A to within the snap radius
\* of another vertex B and releasing gives a polygon with one vertex fewer that
\* still has B's position.
C7_MergeAnyPolygon ==
  [][ (AfterVertexDragMove /\ mergeCandidate # NULL /\ last'.ev = "up") =>
        /\ Len(vertices') = Len(vertices) - 1
        /\ \E k \in Indices(vertices') : At(vertices', k) = At(vertices, mergeCandidate)
    ]_vars

\* C7, amended: that holds for a polygon of more than 3 vertices; with exactly 3
\* the release removes nothing and the polygon stays as the drag left it.
C7_MergeAboveThree ==
  [][ (AfterVertexDragMove /\ mergeCandidate # NULL /\ last'.ev = "up") =>
        /\ Len(vertices) > 3 =>
             /\ Len(vertices') = Len(vertices) - 1
             /\ \E k \in Indices(vertices') : At(vertices', k) = At(vertices, mergeCandidate)
             /\ mergeCandidate # dragIndex
             /\ At(vertices, dragIndex) = At(vertices, mergeCandidate)
        /\ Len(vertices) <= 3 => vertices' = vertices
    ]_vars

\* a release has just merged a dragged vertex of a 4-vertex polygon
C7_Witness ==
  /\ last.ev = "up"
  /\ last.idx # NULL
  /\ last.n = 4
  /\ Len(vertices) = 3

\* C8: a pointer-down with the secondary or middle button always enters panning
\* and records the anchor, whatever is armed or under the cursor, and changes
\* neither the polygon nor the selection.
C8_SecondaryButtonPans ==
  [][ (last'.ev = "down" /\ last'.btn \in {1, 2}) =>
        /\ isPanning'
        /\ lastPan' = last'.pt
        /\ vertices' = vertices
        /\ selectedVertex' = selectedVertex
        /\ selectedEdge' = selectedEdge
    ]_vars

\* the middle button has just been pressed 10 px from vertex 1, with insert mode
\* and object mode both armed
C8_Witness ==
  /\ last.ev = "down"
  /\ last.btn = 1
  /\ last.pt = <<Vec(Px(600), Px(440))>>
  /\ isAddMode
  /\ isObjectMode
  /\ isPanning

\* C9: a primary-button pointer-down with insert mode armed and an edge in range
\* inserts exactly one vertex and leaves the machine idle, also when object mode
\* is armed or a vertex is in range.
C9_InsertLeavesIdle ==
  [][ ( /\ last'.ev = "down"
        /\ last'.btn = 0
        /\ isAddMode
        /\ getNearestEdge(last'.pt[1].x, last'.pt[1].y) # NULL ) =>
      /\ Len(vertices') = Len(vertices) + 1
      /\ Idle'
    ]_vars

\* What the insert branch does guarantee: exactly one vertex is inserted and the
\* press itself starts no vertex drag, edge drag, pan or object transform, so an
\* idle machine stays idle.
InsertIsSingleShot ==
  [][ ( /\ last'.ev = "down"
        /\ last'.btn = 0
        /\ isAddMode
        /\ getNearestEdge(last'.pt[1].x, last'.pt[1].y) # NULL ) =>
      /\ Len(vertices') = Len(vertices) + 1
      /\ Without(vertices', last'.idx) = vertices
      /\ UNCHANGED <<isPanning, dragIndex, dragEdge, objectSelected, objectDragStart>>
      /\ Idle => Idle'
    ]_vars

\* a click 10 px from vertex 1 has just inserted a vertex, with object mode armed
InsertIsSingleShotWitness ==
  /\ last.ev = "down"
  /\ last.btn = 0
  /\ last.idx # NULL
  /\ last.pt = <<Vec(Px(600), Px(440))>>
  /\ isObjectMode
  /\ Len(vertices) = last.n + 1
  /\ Idle

\* C10: a primary-button pointer-down with object mode armed, and no insert
\* taking place, enters object transform with the current polygon as snapshot
\* and the average of the vertices as pivot, also when a vertex or an edge is
\* under the cursor; no vertex or edge drag starts and the selection is unchanged.
C10_ObjectModeTakesPress ==
  [][ ( /\ last'.ev = "down"
        /\ last'.btn = 0
        /\ isObjectMode
        /\ ~(isAddMode /\ getNearestEdge(last'.pt[1].x, last'.pt[1].y) # NULL) ) =>
      LET n == Len(vertices) IN
      /\ ObjectDragActive'
      /\ originalVerts' = <<vertices>>
      /\ Len(objectCenter') = 1
      /\ RMul(Rat(n), objectCenter'[1].x) = SumX(vertices, n)
      /\ RMul(Rat(n), objectCenter'[1].y) = SumY(vertices, n)
      /\ UNCHANGED <<vertices, dragIndex, dragEdge, selectedVertex, selectedEdge>>
    ]_vars

\* object mode has just taken a press on vertex 0
C10_Witness ==
  /\ last.ev = "down"
  /\ last.btn = 0
  /\ last.pt = <<Vec(Px(200), Px(450))>>
  /\ ObjectDragActive
  /\ dragIndex = NULL
  /\ originalVerts = <<vertices>>

\* the squared distance on the canvas from vertex k to the point p
VertexD2(k, p) ==
  LET c == worldToCanvas(At(vertices, k), CenterX, CenterY)
  IN  Hypot2(RSub(c.x, p.x), RSub(c.y, p.y))

\* the squared distance on the canvas from edge i (vertex i to vertex (i+1) mod n) to p
EdgeD2(i, p) ==
  LET a == worldToCanvas(At(vertices, i), CenterX, CenterY)
      b == worldToCanvas(At(vertices, (i + 1) % Len(vertices)), CenterX, CenterY)
  IN  pointToSegmentDistance2(p.x, p.y, a.x, a.y, b.x, b.y)

\* the vertex threshold and the edge threshold, squared
VertexT2 == RSq(Px(POINT_R_PX + VERTEX_MARGIN_PX))
EdgeT2 == RSq(Px(EDGE_THRESHOLD_PX))

\* this step is a pointer-move that reaches the hover detection
HoverRuns == last'.ev = "move" /\ ~isPanning /\ ~ObjectDragActive

\* this step is a primary-button press with insert mode armed
ArmedPress == last'.ev = "down" /\ last'.btn = 0 /\ isAddMode

\* the edge getNearestEdge gave an armed press: the one before the index it inserts at
PressedEdge == IF last'.idx = NULL THEN NULL
               ELSE (last'.idx - 1 + Len(vertices)) % Len(vertices)

\* C11: in every handler that hit-tests the pointer (default press, insert-armed
\* press, hover), a position with a vertex within the vertex threshold is never
\* resolved to an edge hit.
C11_VertexHitPreferred ==
  [][ /\ ( /\ last'.ev = "down" /\ last'.btn = 0 /\ ~isObjectMode
           /\ getNearestIndex(last'.pt[1].x, last'.pt[1].y) # NULL ) =>
           /\ last'.idx = NULL
           /\ dragEdge' = NULL
           /\ selectedEdge' = NULL
      /\ ( /\ last'.ev = "down" /\ last'.btn = 0 /\ isObjectMode
           /\ getNearestIndex(last'.pt[1].x, last'.pt[1].y) # NULL ) =>
           last'.idx = NULL
      /\ (HoverRuns /\ getNearestIndex(last'.pt[1].x, last'.pt[1].y) # NULL) =>
           hoverEdge' = NULL
    ]_vars

\* C12: nearestVertex returns an index whose vertex has the minimum distance on
\* the canvas to the pointer if that minimum is at most 14 px (radius 8 + margin
\* 6), and none when every vertex is farther.
C12_NearestVertexContract ==
  [][ HoverRuns =>
      LET p == last'.pt[1]
          r == hoverVertex'
      IN  /\ r # NULL =>
                /\ r \in Indices(vertices)
                /\ RLe(VertexD2(r, p), VertexT2)
                /\ \A k \in Indices(vertices) : RLe(VertexD2(r, p), VertexD2(k, p))
          /\ r = NULL => \A k \in Indices(vertices) : ~RLe(VertexD2(k, p), VertexT2)
          /\ (\E k \in Indices(vertices) : RLe(VertexD2(k, p), VertexT2)) => r # NULL
    ]_vars

\* hovering exactly 14 px from vertex 1 has just found it
C12_Witness ==
  /\ last.ev = "move"
  /\ last.pt = <<Vec(Px(586), Px(450))>>
  /\ hoverVertex = 1
  /\ VertexD2(1, last.pt[1]) = VertexT2
  /\ Idle

\* C13, as claimed: when several vertices are at the same minimal distance from
\* the pointer, nearestVertex returns the lowest of their indices.
C13_TieLowestIndex ==
  [][ (HoverRuns /\ hoverVertex' # NULL) =>
        \A k \in Indices(vertices) :
          VertexD2(k, last'.pt[1]) = VertexD2(hoverVertex', last'.pt[1]) => hoverVertex' <= k
    ]_vars

\* C13, amended: it returns the highest of their indices (the loop compares with
\* <=, so the last of the nearest wins).
C13_TieHighestIndex ==
  [][ (HoverRuns /\ hoverVertex' # NULL) =>
        \A k \in Indices(vertices) :
          VertexD2(k, last'.pt[1]) = VertexD2(hoverVertex', last'.pt[1]) => hoverVertex' >= k
    ]_vars

\* a hover has just found a vertex while another vertex is at the same distance
C13_Witness ==
  /\ last.ev = "move"
  /\ hoverVertex \in Indices(vertices)
  /\ dragIndex \in Indices(vertices)
  /\ At(vertices, dragIndex) = At(vertices, hoverVertex)
  /\ \E k \in Indices(vertices) :
       /\ k # hoverVertex
       /\ VertexD2(k, last.pt[1]) = VertexD2(hoverVertex, last.pt[1])

\* what nearestEdge gave (r) is an edge of minimum distance within the 10 px
\* threshold, or none when every edge is farther
EdgeContract(r, p) ==
  /\ r # NULL =>
       /\ r \in Indices(vertices)
       /\ RLe(EdgeD2(r, p), EdgeT2)
       /\ \A i \in Indices(vertices) : RLe(EdgeD2(r, p), EdgeD2(i, p))
  /\ r = NULL => \A i \in Indices(vertices) : ~RLe(EdgeD2(i, p), EdgeT2)

\* C14, as claimed: nearestEdge returns an edge of minimum point-to-segment
\* distance if within 10 px, none otherwise, and on an exact tie the lowest
\* edge index.
C14_NearestEdgeTieLowest ==
  [][ /\ ArmedPress =>
           /\ EdgeContract(PressedEdge, last'.pt[1])
           /\ PressedEdge # NULL =>
                \A i \in Indices(vertices) :
                  EdgeD2(i, last'.pt[1]) = EdgeD2(PressedEdge, last'.pt[1]) => PressedEdge <= i
      /\ (HoverRuns /\ hoverVertex' = NULL) =>
           /\ EdgeContract(hoverEdge', last'.pt[1])
           /\ hoverEdge' # NULL =>
                \A i \in Indices(vertices) :
                  EdgeD2(i, last'.pt[1]) = EdgeD2(hoverEdge', last'.pt[1]) => hoverEdge' <= i
    ]_vars

\* C14, amended: the same contract, and on an exact tie the highest edge index.
C14_NearestEdgeTieHighest ==
  [][ /\ ArmedPress =>
           /\ EdgeContract(PressedEdge, last'.pt[1])
           /\ PressedEdge # NULL =>
                \A i \in Indices(vertices) :
                  EdgeD2(i, last'.pt[1]) = EdgeD2(PressedEdge, last'.pt[1]) => PressedEdge >= i
      /\ (HoverRuns /\ hoverVertex' = NULL) =>
           /\ EdgeContract(hoverEdge', last'.pt[1])
           /\ hoverEdge' # NULL =>
                \A i \in Indices(vertices) :
                  EdgeD2(i, last'.pt[1]) = EdgeD2(hoverEdge', last'.pt[1]) => hoverEdge' >= i
    ]_vars

\* an armed press 10 px from edge 0 and 10 px from edge 1 of the initial square
\* has just inserted a vertex on edge 1 (at index 2)
C14_Witness ==
  /\ last.ev = "down"
  /\ last.pt = <<Vec(Px(590), Px(440))>>
  /\ last.n = 4
  /\ last.idx = 2
  /\ Without(vertices, 2) = InitialVertices

\* where the world point w is on the canvas under the given offset and scale
ToScreen(w, off, scale) ==
  Vec(RAdd(RAdd(Px(RectW \div 2), off.x), RMul(w.x, scale)),
      RSub(RAdd(Px(RectH \div 2), off.y), RMul(w.y, scale)))

\* the view scale is within [MIN_PX_PER_M, MAX_PX_PER_M]
ScaleInBounds == RLe(Px(MIN_PX_PER_M), pxPerM) /\ RLe(pxPerM, Px(MAX_PX_PER_M))

\* C15: for every wheel event at screen point P, with W the world point under P
\* before the event, the new offset and the new clamped scale map W back to P,
\* also when the requested scale is clamped.
C15_ZoomAnchor ==
  [][ last'.ev = "wheel" =>
      LET P == last'.pt[1]
          W == canvasToWorld(P.x, P.y, CenterX, CenterY)
      IN  /\ ToScreen(W, offset, pxPerM) = P
          /\ ToScreen(W, offset', pxPerM') = P
    ]_vars

\* a wheel event away from the centre has just been clamped at the minimum scale
\* after an earlier zoom, and has moved the offset
C15_Witness ==
  /\ last.ev = "wheel"
  /\ last.pt = <<Vec(Px(620), Px(130))>>
  /\ wheels >= 2
  /\ pxPerM = Px(MIN_PX_PER_M)
  /\ offset # Vec(Zero, Zero)

\* C16: in every reachable state the view scale lies in [20, 400], for any
\* sequence of wheel events interleaved with other events.
C16_ScaleInBounds == ScaleInBounds

\* three wheel events have run the scale up to the maximum
C16_Witness ==
  /\ last.ev = "wheel"
  /\ wheels = 3
  /\ pxPerM = Px(MAX_PX_PER_M)

\* C17: for every view transform and every vertex v, toWorld(toScreen(v)) = v,
\* and a larger world y is a smaller screen y.
C17_RoundTrip ==
  \A k \in Indices(vertices) :
    LET v == At(vertices, k)
        c == worldToCanvas(v, CenterX, CenterY)
    IN  /\ canvasToWorld(c.x, c.y, CenterX, CenterY) = v
        /\ \A l \in Indices(vertices) :
             LET c2 == worldToCanvas(At(vertices, l), CenterX, CenterY)
             IN  /\ RLt(v.y, At(vertices, l).y) <=> RLt(c2.y, c.y)
                 /\ RLt(v.x, At(vertices, l).x) <=> RLt(c.x, c2.x)
    
\* the view has been zoomed and moved, and a vertex has been dragged
C17_Witness ==
  /\ pxPerM # Px(INITIAL_PX_PER_M)
  /\ offset.x # Zero
  /\ offset.y # Zero
  /\ vertices # InitialVertices
  /\ last.ev = "move"

\* the dot product of two vectors
Dot(a, b) == RAdd(RMul(a.x, b.x), RMul(a.y, b.y))

\* this step is a pointer-move without Ctrl that moves the dragged edge
EdgeDragMove ==
  /\ last'.ev = "move"
  /\ last'.key # "ctrl"
  /\ ~isPanning /\ ~ObjectDragActive
  /\ dragEdge \in Indices(vertices)
  /\ prevPointerWorld # <<>>

\* C18: during an edge drag without the axis-constraint modifier, the
\* displacement applied to the endpoints of the edge on a pointer-move has zero
\* dot product with the edge vector, for every edge and every pointer delta.
C18_EdgeMovesPerpendicular ==
  [][ EdgeDragMove =>
      LET i == dragEdge
          j == (i + 1) % Len(vertices)
          e == VSub(At(vertices, j), At(vertices, i))
          di == VSub(At(vertices', i), At(vertices, i))
          dj == VSub(At(vertices', j), At(vertices, j))
      IN  /\ Len(vertices') = Len(vertices)
          /\ Dot(di, e) = Zero
          /\ Dot(dj, e) = Zero
          /\ di = dj
          /\ \A k \in Indices(vertices) \ {i, j} : At(vertices', k) = At(vertices, k)
    ]_vars

\* a move without Ctrl has just pushed edge 0, which is neither horizontal nor
\* vertical, off its place: vertex 1 is no longer where it started
C18_Witness ==
  /\ last.ev = "move"
  /\ last.key = "none"
  /\ dragEdge = 0
  /\ ~isPanning
  /\ At(vertices, 1).x # At(vertices, 0).x
  /\ At(vertices, 1).y # At(vertices, 0).y
  /\ At(vertices, 1) # At(InitialVertices, 1)

\* this step is a pointer-move handled by the object transform with this tool
ObjectMove(tool) ==
  /\ last'.ev = "move"
  /\ ~isPanning
  /\ ObjectDragActive
  /\ objectTool = tool

\* C19: during an object-transform translate gesture, after any pointer-move,
\* whatever other events came before pointer-up, every vertex i equals
\* snapshot[i] + (cursor world position - anchor); moving the cursor back to the
\* anchor restores the polygon exactly to its state at gesture start.
C19_TranslateFromSnapshot ==
  [][ ObjectMove("translate") =>
      LET snap == originalVerts[1]
          pw == canvasToWorld(last'.pt[1].x, last'.pt[1].y, CenterX, CenterY)
          d == VSub(pw, objectDragStart[1])
      IN  /\ Len(vertices') = Len(snap)
          /\ \A k \in 1 .. Len(snap) : vertices'[k] = VAdd(snap[k], d)
          /\ pw = objectDragStart[1] => vertices' = snap
    ]_vars

\* sq is a square of side 3: four sides of length 3, neighbours at right angles
IsSquare3(sq) ==
  /\ Len(sq) = 4
  /\ \A k \in 1 .. 4 :
       LET a == VSub(sq[(k % 4) + 1], sq[k])
           b == VSub(sq[((k + 1) % 4) + 1], sq[(k % 4) + 1])
       IN  Dot(a, a) = Rat(9) /\ Dot(a, b) = Zero

\* C20: rotating a square of side 3 by 90 degrees about its centroid maps each
\* vertex to the position of its cyclic neighbour, and the polygon area is
\* unchanged by rotation and by translation.
C20_RotateSquareAndArea ==
  [][ \A tool \in {"translate", "rotate"} :
        (ObjectMove(tool) /\ Len(vertices) = Len(originalVerts[1])) =>
        LET snap == originalVerts[1]
            pw == canvasToWorld(last'.pt[1].x, last'.pt[1].y, CenterX, CenterY)
            u == StartDir
            v == Dir(VSub(pw, objectCenter[1]))
            cross == RSub(RMul(u.x, v.y), RMul(u.y, v.x))
        IN  /\ computePolygonAreaM2(vertices') = computePolygonAreaM2(snap)
            /\ ( /\ tool = "rotate"
                 /\ IsSquare3(snap)
                 /\ objectCenter[1] = getCentroid(snap)
                 /\ Dot(u, v) = Zero ) =>
               \A i \in 0 .. 3 :
                 At(vertices', i) = At(snap, IF RLt(Zero, cross) THEN (i + 1) % 4 ELSE (i + 3) % 4)
    ]_vars

\* a quarter turn of the square of side 3 has just put every vertex where its
\* neighbour was
C20_Witness ==
  /\ last.ev = "move"
  /\ objectTool = "rotate"
  /\ ObjectDragActive
  /\ originalVerts = <<Square3>>
  /\ vertices = Rot(Square3, 1)
  /\ computePolygonAreaM2(vertices) = Rat(9)

\* seq in the opposite order
Reverse(seq) == [k \in 1 .. Len(seq) |-> seq[Len(seq) + 1 - k]]

\* twice the signed area of pts as a fan of triangles from pts[1]: the sum of
\* (pts[i] - pts[1]) x (pts[i+1] - pts[1]) over i = 2 .. k
RECURSIVE FanSum(_, _)
FanSum(pts, k) ==
  IF k < 2 THEN Zero
  ELSE LET a == VSub(pts[k], pts[1])
           b == VSub(pts[k + 1], pts[1])
       IN  RAdd(FanSum(pts, k - 1), RSub(RMul(a.x, b.y), RMul(a.y, b.x)))

\* C21: the area function returns half the absolute value of the shoelace sum
\* over the cyclic vertex sequence, the same for both orientations, 0 for fewer
\* than 3 points, and exactly 12 for the polygon the session starts with.
C21_AreaContract ==
  LET area == computePolygonAreaM2(vertices) IN
  /\ RMul(Rat(2), area) = RAbs(FanSum(vertices, Len(vertices) - 1))
  /\ RLe(Zero, area)
  /\ computePolygonAreaM2(Reverse(vertices)) = area
  /\ \A k \in 0 .. 2 : computePolygonAreaM2(SubSeq(vertices, 1, k)) = Zero
  /\ vertices = InitialVertices => area = Rat(12)
  /\ computePolygonAreaM2(InitialVertices) = Rat(12)

\* a move has just left a polygon whose shoelace sum is negative (it is listed
\* clockwise on balance), and the area is the positive half of it, not 12
C21_Witness ==
  /\ last.ev = "move"
  /\ RLt(ShoelaceSum(vertices, Len(vertices)), Zero)
  /\ RLt(Zero, computePolygonAreaM2(vertices))
  /\ computePolygonAreaM2(vertices) # Rat(12)

\* C22: a Delete or Backspace key press changes the polygon only if a vertex is
\* selected and the polygon has more than 3 vertices; delete is then called on
\* the selected index and at most one vertex, the selected one, is removed; any
\* other key, or a key press with no selection or with exactly 3 vertices,
\* leaves the polygon unchanged.
C22_KeyDelete ==
  [][ last'.ev = "key" =>
      LET armed == /\ last'.key \in {"Delete", "Backspace"}
                   /\ selectedVertex # NULL
                   /\ Len(vertices) > 3
      IN  /\ vertices' # vertices => armed
          /\ armed =>
                /\ last'.idx = selectedVertex
                /\ Len(vertices') >= Len(vertices) - 1
                /\ selectedVertex \in Indices(vertices) =>
                     vertices' = Without(vertices, selectedVertex)
                /\ selectedVertex \notin Indices(vertices) => vertices' = vertices
          /\ ~armed => (last'.idx = NULL /\ vertices' = vertices)
    ]_vars

\* Delete has just removed the selected vertex of a polygon of 5 vertices
C22_Witness ==
  /\ last.ev = "key"
  /\ last.key = "Delete"
  /\ last.n = 5
  /\ last.idx = selectedVertex
  /\ Len(vertices) = 4

\* a second key press has just called delete on an index past the end, and
\* nothing has been removed
C22_WitnessStale ==
  /\ last.ev = "key"
  /\ last.idx = Len(vertices)
  /\ last.n = Len(vertices)

\* C23, as claimed: the insert-armed flag and the object-mode flag change only
\* when their toolbar toggle is activated; no pointer-down, pointer-move,
\* pointer-up, wheel or keyboard event changes either flag.
C23_FlagsOnlyByToggle ==
  [][ /\ isAddMode' # isAddMode => last'.ev = "toggleAdd"
      /\ isObjectMode' # isObjectMode => last'.ev = "toggleObject"
    ]_vars

\* C23, amended: the object-mode flag changes only by its toggle; the
\* insert-armed flag changes by its toggle and is cleared by the pointer-down
\* that inserts a vertex; each toggle flips its own flag and leaves the other;
\* no other pointer-down and no pointer-move, pointer-up, wheel or keyboard
\* event changes either flag.
C23_FlagsByToggleOrInsert ==
  [][ LET inserts == ArmedPress /\ last'.idx # NULL IN
      /\ isAddMode' # isAddMode => (last'.ev = "toggleAdd" \/ inserts)
      /\ isObjectMode' # isObjectMode => last'.ev = "toggleObject"
      /\ last'.ev = "toggleAdd" => (isAddMode' = ~isAddMode /\ isObjectMode' = isObjectMode)
      /\ last'.ev = "toggleObject" => (isObjectMode' = ~isObjectMode /\ isAddMode' = isAddMode)
      /\ inserts => ~isAddMode'
      /\ (last'.ev = "down" /\ ~inserts) => UNCHANGED <<isAddMode, isObjectMode>>
      /\ last'.ev \in {"move", "up", "wheel", "key", "tool"} =>
           UNCHANGED <<isAddMode, isObjectMode>>
    ]_vars

\* a press has just inserted a vertex and disarmed insert mode, with object mode
\* still armed
C23_Witness ==
  /\ last.ev = "down"
  /\ last.idx # NULL
  /\ Len(vertices) = last.n + 1
  /\ ~isAddMode
  /\ isObjectMode

\* the point p on the canvas is within the threshold of no vertex and of no edge
HitsNothing(p) ==
  /\ \A k \in Indices(vertices) : ~RLe(VertexD2(k, p), VertexT2)
  /\ \A i \in Indices(vertices) : ~RLe(EdgeD2(i, p), EdgeT2)

\* C24: a primary-button pointer-down that hits no vertex and no edge, with
\* object mode not armed, clears the selected vertex and the selected edge,
\* enters panning with the pointer position as anchor, and leaves the polygon
\* unchanged.
C24_EmptyPressPans ==
  [][ ( /\ last'.ev = "down"
        /\ last'.btn = 0
        /\ ~isObjectMode
        /\ HitsNothing(last'.pt[1]) ) =>
      /\ selectedVertex' = NULL
      /\ selectedEdge' = NULL
      /\ isPanning'
      /\ lastPan' = last'.pt
      /\ vertices' = vertices
      /\ last'.idx = NULL
    ]_vars

\* a press on the empty middle of the canvas has just cleared the selection that
\* the press on a vertex before it had made (that vertex is still the dragged
\* one), and pans from the middle
C24_Witness ==
  /\ last.ev = "down"
  /\ last.btn = 0
  /\ last.pt = <<Vec(Px(400), Px(300))>>
  /\ ~isObjectMode
  /\ dragIndex # NULL
  /\ selectedVertex = NULL
  /\ selectedEdge = NULL
  /\ isPanning
  /\ lastPan = last.pt

\* this step is a pointer-move with Shift held that moves the dragged vertex
ShiftDragMove ==
  /\ last'.ev = "move"
  /\ last'.key = "shift"
  /\ ~isPanning /\ ~ObjectDragActive
  /\ dragEdge = NULL
  /\ dragIndex \in Indices(vertices)

\* the four candidates of a Shift drag of the dragged vertex to the world point t, as listed
SnapCandidates(t) ==
  LET n == Len(vertices)
      prev == At(vertices, (dragIndex + n - 1) % n)
      next == At(vertices, (dragIndex + 1) % n)
  IN  << Vec(t.x, prev.y), Vec(prev.x, t.y), Vec(t.x, next.y), Vec(next.x, t.y) >>

\* the squared Euclidean distance between two world points
WorldD2(a, b) == Hypot2(RSub(a.x, b.x), RSub(a.y, b.y))

\* C25: during a vertex drag with Shift held, the position applied (before merge
\* snapping) is one of the four candidates (target.x, prev.y), (prev.x, target.y),
\* (target.x, next.y), (next.x, target.y), one at minimum Euclidean distance from
\* the raw cursor position, and on a tie the first-listed of the tied candidates.
C25_ShiftSnapFirstNearest ==
  [][ ShiftDragMove =>
      LET t == canvasToWorld(last'.pt[1].x, last'.pt[1].y, CenterX, CenterY)
          c == SnapCandidates(t)
          \* the first-listed candidate of minimum distance
          k == CHOOSE k \in 1 .. 4 :
                 /\ \A m \in 1 .. 4 : RLe(WorldD2(c[k], t), WorldD2(c[m], t))
                 /\ \A m \in 1 .. (k - 1) : WorldD2(c[m], t) # WorldD2(c[k], t)
          s == worldToCanvas(c[k], CenterX, CenterY)
      IN  /\ mergeCandidate' = NULL => At(vertices', dragIndex) = c[k]
          /\ mergeCandidate' # NULL =>
                /\ RLe(VertexD2(mergeCandidate', s), RSq(Px(MERGE_SNAP_PX)))
                /\ At(vertices', dragIndex) = At(vertices, mergeCandidate')
          /\ mergeCandidate' = NULL =>
                \A i \in Indices(vertices) \ {dragIndex} :
                  ~RLe(VertexD2(i, s), RSq(Px(MERGE_SNAP_PX)))
    ]_vars

\* a Shift move to the middle of the canvas, where the first and the third
\* candidate are equally near, has just put vertex 0 on the first: the cursor's
\* x with the y of the previous vertex
C25_Witness ==
  /\ last.ev = "move"
  /\ last.key = "shift"
  /\ last.pt = <<Vec(Px(400), Px(300))>>
  /\ dragIndex = 0
  /\ mergeCandidate = NULL
  /\ At(vertices, 0) = Vec(Zero, At(vertices, 3).y)
  /\ At(vertices, 3).y # At(vertices, 1).y

\* the point p on the canvas is within the edge threshold of some edge
NearSomeEdge(p) == \E i \in Indices(vertices) : RLe(EdgeD2(i, p), EdgeT2)

\* C26: the polygon is mutated only through gestures: wheel events, pointer-moves
\* while panning or idle (hover), toolbar toggles, and pointer-downs other than
\* a successful insert click leave the vertex sequence unchanged.
C26_PolygonFrame ==
  [][ /\ last'.ev = "wheel" => vertices' = vertices
      /\ (last'.ev = "move" /\ (isPanning \/ Idle)) => vertices' = vertices
      /\ last'.ev \in {"toggleAdd", "toggleObject", "tool"} => vertices' = vertices
      /\ ( /\ last'.ev = "down"
           /\ ~(last'.btn = 0 /\ isAddMode /\ NearSomeEdge(last'.pt[1])) ) =>
           vertices' = vertices
      /\ vertices' # vertices => last'.ev \in {"down", "move", "up", "key"}
    ]_vars

\* a pointer-move has just panned the view while a vertex drag that was never
\* released is still set, and the polygon is the initial one
C26_Witness ==
  /\ last.ev = "move"
  /\ isPanning
  /\ dragIndex # NULL
  /\ offset # Vec(Zero, Zero)
  /\ vertices = InitialVertices

\* edge i of the polygon has length zero: its two endpoints coincide
Degenerate(i) == At(vertices, i) = At(vertices, (i + 1) % Len(vertices))

\* every coordinate of pts is a number (no NaN, no infinity)
AllFinite(pts) == \A k \in 1 .. Len(pts) : IsFinite(pts[k].x) /\ IsFinite(pts[k].y)

\* C27: zero-length edges never cause a division by zero: for an edge whose
\* endpoints coincide, the point-to-segment distance is the distance to that
\* endpoint, the projection onto the segment is that endpoint (an insert click
\* resolved to such an edge inserts the endpoint), and an edge drag of such an
\* edge takes 1 for the length of the edge: its displacement is zero, not NaN.
C27_DegenerateEdges ==
  [][ /\ AllFinite(vertices')
      /\ last'.ev \in {"down", "move"} =>
           LET p == last'.pt[1]
               pw == canvasToWorld(p.x, p.y, CenterX, CenterY)
           IN  \A i \in Indices(vertices) :
                 Degenerate(i) =>
                   /\ IsFinite(EdgeD2(i, p))
                   /\ EdgeD2(i, p) = VertexD2(i, p)
                   /\ projectPointOnSegment(pw, At(vertices, i), At(vertices, i)) = At(vertices, i)
      /\ (ArmedPress /\ last'.idx # NULL /\ Degenerate(PressedEdge)) =>
           /\ Len(vertices') = Len(vertices) + 1
           /\ At(vertices', last'.idx) = At(vertices, PressedEdge)
      /\ ( /\ last'.ev = "move"
           /\ ~isPanning /\ ~ObjectDragActive
           /\ dragEdge \in Indices(vertices)
           /\ prevPointerWorld # <<>>
           /\ Degenerate(dragEdge) ) =>
           /\ last'.key # "ctrl" => vertices' = vertices
           /\ At(vertices', dragEdge) = At(vertices', (dragEdge + 1) % Len(vertices))
    ]_vars

\* an armed press outside the corner where the zero-length closing edge lies has
\* just been resolved to that edge and has inserted its endpoint at index 0
C27_Witness ==
  /\ last.ev = "down"
  /\ last.pt = <<Vec(Px(195), Px(145))>>
  /\ last.idx = 0
  /\ Len(vertices) = last.n + 1
  /\ At(vertices, 0) = At(vertices, 1)
  /\ At(vertices, 0) = At(vertices, Len(vertices) - 1)

\* a move without Ctrl has just been handled as a drag of the zero-length edge 2
\* of the triangle, which is where it was
C27_WitnessEdgeDrag ==
  /\ last.ev = "move"
  /\ last.key = "none"
  /\ dragEdge = 2
  /\ ~isPanning
  /\ prevPointerWorld = <<canvasToWorld(last.pt[1].x, last.pt[1].y, CenterX, CenterY)>>
  /\ prevPointerWorld # << Vec(One, Frac(3, 2)) >>
  /\ vertices = DegTriangle

\* this step is a pointer-move handled by the pan
PanMove == last'.ev = "move" /\ isPanning /\ lastPan # <<>>

\* what every pointer-move of a pan does: the offset grows by the difference
\* between the pointer and the anchor, the anchor becomes the pointer, and the
\* scale, the polygon and the selection stay
PanStep ==
  /\ offset' = VAdd(offset, VSub(last'.pt[1], lastPan[1]))
  /\ lastPan' = last'.pt
  /\ UNCHANGED <<pxPerM, vertices, selectedVertex, selectedEdge>>

\* since the pointer-down of the pan, the offset has changed by (pointer
\* position - position of that pointer-down)
PanTotal == VSub(offset', last'.pt[1]) = last'.pan[1].q

\* C28, as claimed: each pointer-move while panning adds to the offset the
\* difference between the pointer position and the position at the previous
\* pointer event of the gesture, updates the anchor, and leaves the scale, the
\* polygon and the selection unchanged; over a whole pan gesture the offset
\* changes by (last position - pointer-down position).
C28_PanWholeGesture ==
  [][ PanMove => (PanStep /\ PanTotal) ]_vars

\* C28, amended: the same for each move; over a pan gesture the offset changes by
\* (last position - pointer-down position) when no wheel event is handled
\* between the pointer-down and the last move (a wheel event adds its own shift
\* of the offset).
C28_PanWithoutWheel ==
  [][ PanMove => (PanStep /\ (last.pan[1].w = wheels => PanTotal)) ]_vars

\* the second move of a pan has just been handled: the pointer left where it was
\* pressed and came to a third place, and the offset is what it was at the
\* press plus the way from the press to here
C28_Witness ==
  /\ last.ev = "move"
  /\ isPanning
  /\ steps = 3
  /\ wheels = 0
  /\ lastPan = last.pt
  /\ offset = VAdd(last.pt[1], last.pan[1].q)
  /\ offset # Vec(Zero, Zero)
  /\ offset.x # Zero /\ offset.y # Zero

AnyEdgeDragMove ==
  /\ last'.ev = "move"
  /\ ~isPanning /\ ~ObjectDragActive
  /\ dragEdge \in Indices(vertices)

\* C30: each pointer-move during an edge drag, with or without Ctrl, applies the
\* same delta to both endpoints of the dragged edge and to no other vertex: the
\* edge vector (endpoint j minus endpoint i) is the same before and after, and
\* every vertex other than the two endpoints is unchanged.
C30_EdgeDragRigid ==
  [][ AnyEdgeDragMove =>
      LET n == Len(vertices)
          i == dragEdge
          j == (i + 1) % n
      IN  /\ Len(vertices') = n
          /\ VSub(At(vertices', j), At(vertices', i)) = VSub(At(vertices, j), At(vertices, i))
          /\ VSub(At(vertices', i), At(vertices, i)) = VSub(At(vertices', j), At(vertices, j))
          /\ \A k \in Indices(vertices) : (k # i /\ k # j) => At(vertices', k) = At(vertices, k)
          /\ dragEdge' = dragEdge
    ]_vars

\* a Ctrl move has just pushed the closing edge of the initial polygon 2.1 m to
\* the right: vertices 3 and 0 have moved by that, vertices 1 and 2 have not
C30_Witness ==
  /\ last.ev = "move"
  /\ last.key = "ctrl"
  /\ dragEdge = 3
  /\ Len(vertices) = 4
  /\ At(vertices, 3) = VAdd(At(InitialVertices, 3), Vec(Frac(21, 10), Zero))
  /\ At(vertices, 0) = VAdd(At(InitialVertices, 0), Vec(Frac(21, 10), Zero))
  /\ At(vertices, 1) = At(InitialVertices, 1)
  /\ At(vertices, 2) = At(InitialVertices, 2)

\* this step is a pointer-move with Ctrl that moves the dragged edge
CtrlEdgeDragMove ==
  /\ last'.ev = "move"
  /\ last'.key = "ctrl"
  /\ ~isPanning /\ ~ObjectDragActive
  /\ dragEdge \in Indices(vertices)
  /\ prevPointerWorld # <<>>

\* the raw delta of this pointer-move: the world point under the cursor less the
\* world point of the previous event of the drag
RawDelta ==
  VSub(canvasToWorld(last'.pt[1].x, last'.pt[1].y, CenterX, CenterY), prevPointerWorld[1])

\* C31: during an edge drag with Ctrl held, the delta applied to the endpoints is
\* axis-aligned: the component of the raw delta with the smaller magnitude is
\* zeroed and the other is kept; when |dx| = |dy| the x component is zeroed.
C31_CtrlAxisAligned ==
  [][ CtrlEdgeDragMove =>
      LET i == dragEdge
          j == (i + 1) % Len(vertices)
          raw == RawDelta
          di == VSub(At(vertices', i), At(vertices, i))
          dj == VSub(At(vertices', j), At(vertices, j))
          want == IF RLt(RAbs(raw.y), RAbs(raw.x)) THEN Vec(raw.x, Zero)
                  ELSE IF RLt(RAbs(raw.x), RAbs(raw.y)) THEN Vec(Zero, raw.y)
                  ELSE Vec(Zero, raw.y)
      IN  /\ di = want
          /\ dj = want
          /\ (di.x = Zero \/ di.y = Zero)
    ]_vars

\* a Ctrl move 150 px right and 150 px down from the press on the closing edge
\* (a tie) has just moved that edge 1.5 m down and not sideways
C31_Witness ==
  /\ last.ev = "move"
  /\ last.key = "ctrl"
  /\ dragEdge = 3
  /\ last.pt = << Vec(Px(340), Px(450)) >>
  /\ At(vertices, 3) = VAdd(At(InitialVertices, 3), Vec(Zero, Frac(-3, 2)))
  /\ At(vertices, 0) = VAdd(At(InitialVertices, 0), Vec(Zero, Frac(-3, 2)))

\* a Ctrl move has just moved the closing edge sideways only: the horizontal
\* component of the raw delta was the larger
C31_WitnessHorizontal ==
  /\ last.ev = "move"
  /\ last.key = "ctrl"
  /\ dragEdge = 3
  /\ At(vertices, 3).x # At(InitialVertices, 3).x
  /\ At(vertices, 3).y = At(InitialVertices, 3).y

\* the merge radius, squared
MergeT2 == RSq(Px(MERGE_SNAP_PX))

\* no vertex other than vertex k is within the merge radius of canvas point p
NoOtherVertexNear(k, p) ==
  \A m \in Indices(vertices) \ {k} : ~RLe(VertexD2(m, p), MergeT2)

\* C32: the merge candidate reflects only the most recent pointer-move of the
\* vertex drag: when the last pointer-move of the drag before the release has no
\* other vertex within the snap radius of the dragged vertex, also after an
\* earlier move of the gesture had one, the candidate is null and the pointer-up
\* removes no vertex: the polygon is unchanged.
C32_CandidateOfLastMove ==
  [][ ( /\ AfterVertexDragMove
        /\ NoOtherVertexNear(dragIndex, last.pt[1])
        /\ last'.ev = "up" ) =>
        /\ mergeCandidate = NULL
        /\ vertices' = vertices
        /\ last'.idx = NULL
    ]_vars

\* a release has just ended a drag of vertex 0 that had snapped onto another
\* vertex and was then moved to the middle of the canvas: nothing was removed,
\* and the vertex is where it was left
C32_Witness ==
  /\ last.ev = "up"
  /\ last.snapped
  /\ last.idx = NULL
  /\ last.n = 4
  /\ Len(vertices) = 4
  /\ steps = 4
  /\ selectedVertex = 0
  /\ At(vertices, 0) = Vec(Zero, Zero)
  /\ At(vertices, 1) = At(InitialVertices, 1)

\* the state that release came from: the drag has snapped earlier, and the last
\* move found no candidate
C32_WitnessBeforeRelease ==
  /\ AfterVertexDragMove
  /\ last.snapped
  /\ mergeCandidate = NULL
  /\ NoOtherVertexNear(dragIndex, last.pt[1])

\* this step is a pointer-move without a modifier handled by the drag of a
\* vertex of the polygon
PlainVertexDragMove ==
  /\ last'.ev = "move"
  /\ last'.key = "none"
  /\ ~isPanning /\ ~ObjectDragActive /\ dragEdge = NULL
  /\ dragIndex \in Indices(vertices)

\* the vertices other than k within the merge radius of canvas point p
OthersNear(k, p) ==
  { m \in Indices(vertices) \ {k} : RLe(VertexD2(m, p), MergeT2) }

\* C33: on a pointer-move of a vertex drag with no modifier held, when no other
\* vertex is within the snap radius of the cursor the dragged vertex becomes
\* exactly the world position under the cursor, and when another vertex is
\* within the snap radius it becomes exactly the position of such a vertex (one
\* that no other is nearer than); every other vertex is unchanged.
C33_VertexFollowsCursor ==
  [][ PlainVertexDragMove =>
      LET c == last'.pt[1]
          pw == canvasToWorld(c.x, c.y, CenterX, CenterY)
          near == OthersNear(dragIndex, c)
      IN  /\ Len(vertices') = Len(vertices)
          /\ \A k \in Indices(vertices) \ {dragIndex} : At(vertices', k) = At(vertices, k)
          /\ near = {} => At(vertices', dragIndex) = pw /\ mergeCandidate' = NULL
          /\ near # {} =>
                \E m \in near :
                  /\ At(vertices', dragIndex) = At(vertices, m)
                  /\ mergeCandidate' = m
                  /\ \A o \in near : RLe(VertexD2(m, c), VertexD2(o, c))
    ]_vars

\* a plain move has just put dragged vertex 0 under the cursor in the middle of
\* the canvas, which is the origin of the world
C33_Witness ==
  /\ AfterVertexDragMove
  /\ last.key = "none"
  /\ dragIndex = 0
  /\ last.pt = << Vec(Px(400), Px(300)) >>
  /\ mergeCandidate = NULL
  /\ At(vertices, 0) = Vec(Zero, Zero)

\* a plain move 10 px from vertex 1 has just put dragged vertex 0 on vertex 1
C33_WitnessSnap ==
  /\ AfterVertexDragMove
  /\ last.key = "none"
  /\ dragIndex = 0
  /\ last.pt = << Vec(Px(600), Px(440)) >>
  /\ mergeCandidate = 1
  /\ At(vertices, 0) = At(InitialVertices, 1)
  /\ At(vertices, 1) = At(InitialVertices, 1)

\* C34: in every reachable state the selected vertex and the selected edge are
\* never both non-null: selecting an edge by pointer-down clears any vertex
\* selection, and selecting a vertex clears any edge selection.
C34_SelectionExclusive ==
  /\ [](~(selectedVertex # NULL /\ selectedEdge # NULL))
  /\ [][ (last'.ev = "down" /\ selectedEdge' # NULL /\ selectedEdge' # selectedEdge)
          => selectedVertex' = NULL ]_vars
  /\ [][ (last'.ev = "down" /\ selectedVertex' # NULL /\ selectedVertex' # selectedVertex)
          => selectedEdge' = NULL ]_vars

\* C35: in every reachable state the selected vertex index, when non-null, is an
\* index of the current polygon (0 <= selectedVertex < length), also after
\* keyboard deletes and after the deletions of a merge on release.
C35_SelectedVertexInRange ==
  selectedVertex # NULL => selectedVertex \in Indices(vertices)

\* C36: the selection follows the vertex, not the index: the vertex removed by a
\* Delete or Backspace key press is always the vertex the user last selected by
\* pointer-down, also when an insert-mode click or a merge has added or removed
\* a vertex at a lower index since the selection was made. (Checked in sessions
\* without pointer-moves, where a vertex is known by its position.)
C36_DeleteRemovesSelectedVertex ==
  [][ (last'.ev = "key" /\ last'.idx # NULL) =>
        /\ last.sel # <<>>
        /\ At(vertices, last'.idx) = last.sel[1]
        /\ \A k \in Indices(vertices') : At(vertices', k) # last.sel[1]
    ]_vars

\* C37: in every reachable state the cached insert preview point is non-null
\* only while insert mode is armed; disarming insert mode, by its toggle or by a
\* completed insert, clears the preview, so that none is left to show when
\* insert mode is armed again.
C37_PreviewOnlyWhileArmed ==
  /\ [](addPreview # <<>> => isAddMode)
  /\ [][ (isAddMode /\ ~isAddMode') => addPreview' = <<>> ]_vars
  /\ [][ (~isAddMode /\ isAddMode') => addPreview' = <<>> ]_vars

\* C38: in every reachable state objectSelected implies that object mode is
\* armed: toggling object mode, on or off, resets objectSelected to false, and
\* only a pointer-down taken by the object-mode branch sets it to true.
C38_ObjectSelectedOnlyInObjectMode ==
  /\ [](objectSelected => isObjectMode)
  /\ [][ isObjectMode' # isObjectMode => (last'.ev = "toggleObject" /\ ~objectSelected') ]_vars
  /\ [][ last'.ev = "toggleObject" => (isObjectMode' # isObjectMode /\ ~objectSelected') ]_vars
  /\ [][ (~objectSelected /\ objectSelected') =>
            /\ last'.ev = "down"
            /\ isObjectMode
            /\ DownBranch(last'.btn, last'.pt[1].x, last'.pt[1].y) = "object" ]_vars

\* the toggle has just switched object mode off and with it reset the selection
\* that a press in object mode had made
C38_Witness ==
  /\ last.ev = "toggleObject"
  /\ ~isObjectMode
  /\ ~objectSelected
  /\ objectCenter # <<>>

\* C39: whenever the merge candidate is non-null, a vertex drag is active, the
\* candidate is an index of the polygon and it differs from the index of the
\* dragged vertex; hence a pointer-up never deletes a vertex that was not moved
\* onto another vertex during the current gesture.
C39_CandidateValid ==
  /\ [](mergeCandidate # NULL =>
          /\ dragIndex # NULL
          /\ mergeCandidate \in Indices(vertices)
          /\ mergeCandidate # dragIndex)
  /\ [][ (last'.ev = "up" /\ last'.idx # NULL /\ Len(vertices') < Len(vertices)) =>
            \E m \in Indices(vertices) \ {last'.idx} :
              At(vertices, m) = At(vertices, last'.idx) ]_vars

\* the sum of the deltas that the queued onMove calls for vertex k add to the
\* vertex the handlers read
RECURSIVE QueuedDelta(_, _)
QueuedDelta(k, m) ==
  IF m = 0 THEN Vec(Zero, Zero)
  ELSE IF pending[m][1] = k
       THEN VAdd(QueuedDelta(k, m - 1), VSub(pending[m][2], At(vertices, k)))
       ELSE QueuedDelta(k, m - 1)

\* C40: no incremental edge-drag delta is lost: when two pointer-moves of an
\* edge drag are handled before the component is rendered again (both handlers
\* read the same vertices), the displacement of the endpoints of the edge after
\* the render is the sum of the two constrained deltas.
C40_NoDeltaLost ==
  [][ (pending # <<>> /\ pending' = <<>> /\ dragEdge \in Indices(vertices)) =>
      LET i == dragEdge
          j == (i + 1) % Len(vertices)
      IN  /\ At(vertices', i) = VAdd(At(vertices, i), QueuedDelta(i, Len(pending)))
          /\ At(vertices', j) = VAdd(At(vertices, j), QueuedDelta(j, Len(pending)))
    ]_vars

====
